---- MODULE Spec2Model ----
(***************************************************************************)
(* A model of the remote-execution helpers of wine-droid:                  *)
(*   src/termux_utils.py      run_command, run_ssh_command, the scp push   *)
(*                            helpers, the remote filesystem probes and    *)
(*                            the temporary-file helpers;                  *)
(*   src/termux-ssh-login.py  TermuxSSHClient.read_config and main;        *)
(*   the driver scripts       setup-android-phone.py, compile-box64-       *)
(*                            termux.py, cross-compile-box64-android-      *)
(*                            sdk.py, scrcpy.py and install-termux.py.     *)
(*                                                                         *)
(* Text is a sequence of tokens.  A token is either one of the characters  *)
(* the parsers look at (blank, '=', '#', the two quote characters) or a    *)
(* maximal run of other characters ("host", "8022", ...).  Python's None   *)
(* is the empty sequence <<>> and a present value v is <<v>>.              *)
(***************************************************************************)
EXTENDS Integers, Sequences, FiniteSets, TLC

VARIABLES
    utilCfg,       \* termux-user.txt at the path termux_utils hardcodes: <<>> or <<lines>>
    openConns,     \* SSH connections opened by run_ssh_command and not closed
    localTmp,      \* names of the local temporary files that exist on disk
    remoteFiles,   \* remote paths that are regular files
    remoteDirs,    \* remote paths that are directories
    last,          \* the call that returned last, with its inputs and its result
    prev,          \* a summary of the call before it
    clientFile,    \* the configuration file of a TermuxSSHClient: <<>> or <<lines>>
    config,        \* TermuxSSHClient.config, a function from keys to values
    clientLog,     \* what the last read_config call returned and logged
    clientCalls,   \* read_config calls made on the current client
    script         \* the driver script being run: its position, inputs and results

vars == <<utilCfg, openConns, localTmp, remoteFiles, remoteDirs, last, prev,
          clientFile, config, clientLog, clientCalls, script>>

utilVars == <<utilCfg, openConns, localTmp, remoteFiles, remoteDirs, last, prev>>

clientVars == <<clientFile, config, clientLog, clientCalls>>

driverVars == <<script>>

-----------------------------------------------------------------------------
(* Bounds of the model.                                                    *)

MaxConns == 1

MaxTmp == 1

MaxLines == 3

MaxValLen == 3

MaxCalls == 2
MaxOutputLines == 3  \* lines printed by "adb devices"
MaxFailures == 2     \* package-manager commands that fail in one installation

-----------------------------------------------------------------------------
(* Text.                                                                   *)

None == <<>>

Some(v) == <<v>>

SP == " "

EQ == "="

HASH == "#"

DQ == "\""

SQ == "'"

NL == "\n"
TAB == "\t"

Whitespace == {SP, NL, TAB}

RECURSIVE LStrip(_)
LStrip(s) ==
    IF s # <<>> /\ Head(s) \in Whitespace THEN LStrip(Tail(s)) ELSE s

RECURSIVE RStrip(_)
RStrip(s) ==
    IF s # <<>> /\ s[Len(s)] \in Whitespace THEN RStrip(SubSeq(s, 1, Len(s) - 1)) ELSE s

\* str.strip()
Strip(s) ==
    RStrip(LStrip(s))

\* str.startswith(p)
StartsWith(s, p) ==
    Len(s) >= Len(p) /\ SubSeq(s, 1, Len(p)) = p

\* str.endswith(p)
EndsWith(s, p) ==
    Len(s) >= Len(p) /\ SubSeq(s, Len(s) - Len(p) + 1, Len(s)) = p

\* c in s
Contains(s, c) ==
    \E i \in 1..Len(s) : s[i] = c

\* s.index(c), for a c that occurs in s
IndexOf(s, c) ==
    CHOOSE i \in 1..Len(s) : s[i] = c /\ \A j \in 1..(i - 1) : s[j] # c

\* s.split(c, 1), for a c that occurs in s: the text before and after the first c
Split1(s, c) ==
    <<SubSeq(s, 1, IndexOf(s, c) - 1), SubSeq(s, IndexOf(s, c) + 1, Len(s))>>

\* value[1:-1]
DropEnds(s) ==
    SubSeq(s, 2, Len(s) - 1)

-----------------------------------------------------------------------------
(* TermuxSSHClient.read_config (src/termux-ssh-login.py).                  *)

EmptyConfig == [k \in {} |-> <<>>]

\* Put keeping the value a key already has
PutIfAbsent(cfg, key, value) ==
    [k \in DOMAIN cfg \cup {key} |-> IF k \in DOMAIN cfg THEN cfg[k] ELSE value]

\* self.config[key] = value
Put(cfg, key, value) ==
    [k \in DOMAIN cfg \cup {key} |-> IF k = key THEN value ELSE cfg[k]]

\* Unquote deciding on the first character alone
UnquoteByFirst(value) ==
    IF StartsWith(value, <<DQ>>) \/ StartsWith(value, <<SQ>>) THEN DropEnds(value)
    ELSE value

\* "Remove quotes if present"
Unquote(value) ==
    IF StartsWith(value, <<DQ>>) /\ EndsWith(value, <<DQ>>) THEN DropEnds(value)
    ELSE IF StartsWith(value, <<SQ>>) /\ EndsWith(value, <<SQ>>) THEN DropEnds(value)
    ELSE value

\* the body of the loop over the lines of the file
ProcessLine(cfg, raw) ==
    LET line == Strip(raw) IN
    IF line = <<>> \/ StartsWith(line, <<HASH>>) THEN cfg
    ELSE IF Contains(line, EQ)
         THEN LET kv == Split1(line, EQ) IN
              Put(cfg, Strip(kv[1]), Unquote(Strip(kv[2])))
         ELSE cfg   \* "Invalid line" is logged, nothing is stored

\* the loop over the first n lines, top to bottom
RECURSIVE ProcessLines(_, _, _)
ProcessLines(cfg, lines, n) ==
    IF n = 0 THEN cfg ELSE ProcessLine(ProcessLines(cfg, lines, n - 1), lines[n])

required_fields == <<<<"host">>, <<"port">>, <<"user">>>>

\* MissingFields stopping at the first missing field
MissingFieldsFirstOnly(cfg) ==
    LET Absent(field) == field \notin DOMAIN cfg
        all == SelectSeq(required_fields, Absent)
    IN IF all = <<>> THEN <<>> ELSE <<Head(all)>>

\* [field for field in required_fields if field not in self.config]
MissingFields(cfg) ==
    LET Absent(field) == field \notin DOMAIN cfg IN
    SelectSeq(required_fields, Absent)

(* One call of read_config on a client whose mapping is cfg.  file is the  *)
(* configuration file (None when it does not exist); failAt = -1 when      *)
(* reading raises nothing, and k >= 0 when open() or the iteration raises  *)
(* after k lines were processed.  The result carries the return value, the *)
(* mapping the client is left with and the fields the error message names. *)
ReadConfigCall(cfg, file, failAt) ==
    IF file = None
    THEN [ret |-> FALSE, config |-> cfg, missing |-> <<>>, why |-> "not found"]
    ELSE IF failAt >= 0
    THEN [ret |-> FALSE, config |-> ProcessLines(cfg, file[1], failAt),
          missing |-> <<>>, why |-> "exception"]
    ELSE LET after == ProcessLines(cfg, file[1], Len(file[1])) IN
         IF MissingFields(after) # <<>>
         THEN [ret |-> FALSE, config |-> after, missing |-> MissingFields(after),
               why |-> "missing"]
         ELSE [ret |-> TRUE, config |-> after, missing |-> <<>>, why |-> "loaded"]

-----------------------------------------------------------------------------
(* termux_utils.read_termux_ssh_config (src/termux_utils.py).              *)

DefaultPort == 8022

Numerals == {"8022", "0", "-5"}

\* int(text): [ok |-> FALSE] stands for ValueError
ParseInt(text) ==
    LET t == Strip(text) IN
    IF Len(t) = 1 /\ t[1] \in Numerals
    THEN [ok |-> TRUE,
          value |-> CASE t[1] = "8022" -> 8022 [] t[1] = "0" -> 0 [] t[1] = "-5" -> -5]
    ELSE [ok |-> FALSE, value |-> 0]

\* Python's "not x" for an optional text: None and '' are both false
Falsy(x) ==
    x = None \/ x = Some(<<>>)

NoConfig == [host |-> None, port |-> None, user |-> None]

\* the body of the loop over the lines; raised records an exception of int()
ScanLine(acc, raw) ==
    LET line == Strip(raw) IN
    IF acc.raised THEN acc
    ELSE IF StartsWith(line, <<"host", EQ>>)
    THEN [acc EXCEPT !.host = Some(Split1(line, EQ)[2])]
    ELSE IF StartsWith(line, <<"port", EQ>>)
    THEN LET n == ParseInt(Split1(line, EQ)[2]) IN
         IF n.ok THEN [acc EXCEPT !.port = Some(n.value)] ELSE [acc EXCEPT !.raised = TRUE]
    ELSE IF StartsWith(line, <<"user", EQ>>)
    THEN [acc EXCEPT !.user = Some(Split1(line, EQ)[2])]
    ELSE acc

RECURSIVE ScanLines(_, _)
ScanLines(lines, n) ==
    IF n = 0
    THEN [host |-> None, port |-> Some(DefaultPort), user |-> None, raised |-> FALSE]
    ELSE ScanLine(ScanLines(lines, n - 1), lines[n])

\* file is termux-user.txt: None when it does not exist
read_termux_ssh_config(file) ==
    IF file = None THEN NoConfig
    ELSE LET acc == ScanLines(file[1], Len(file[1])) IN
         IF acc.raised THEN NoConfig
         ELSE IF Falsy(acc.host) \/ Falsy(acc.user) THEN NoConfig
         ELSE [host |-> acc.host, port |-> acc.port, user |-> acc.user]

\* the contents termux-user.txt takes in the runs of the helpers: complete,
\* without a port, without a user, and with a port that is no number
UtilFiles ==
    { <<<<"host", EQ, "10.0.0.2">>, <<"port", EQ, "8022">>, <<"user", EQ, "u0_a1">>>>,
      <<<<"host", EQ, "10.0.0.2">>, <<"user", EQ, "u0_a1">>>>,
      <<<<"host", EQ, "10.0.0.2">>, <<"port", EQ, "8022">>>>,
      <<<<"host", EQ, "10.0.0.2">>, <<"port", EQ, "x">>, <<"user", EQ, "u0_a1">>>> }

UtilCfgStates ==
    {None} \cup {Some(f) : f \in UtilFiles}

\* read_termux_ssh_config on each of these contents, tabulated once
ConfigTable ==
    [file \in UtilCfgStates |-> read_termux_ssh_config(file)]

\* host, port, user = read_termux_ssh_config()
LoadConfig(file) ==
    ConfigTable[file]

-----------------------------------------------------------------------------
(* termux_utils.run_command and run_ssh_command.                           *)

\* run_command treating every non-zero exit status as a failure
run_command_always_check(spawn, proc, check) ==
    IF spawn = "raise"
    THEN [ok |-> FALSE, result |-> None, raised |-> FALSE]
    ELSE IF proc.returncode # 0
    THEN [ok |-> FALSE, result |-> Some(proc), raised |-> FALSE]
    ELSE [ok |-> TRUE, result |-> Some(proc), raised |-> FALSE]

(* spawn = "raise" when subprocess.run raises; otherwise proc is the       *)
(* completed process: [returncode, stdout, stderr].                        *)
run_command(spawn, proc, check) ==
    IF spawn = "raise"
    THEN \* except Exception: return False, None
         [ok |-> FALSE, result |-> None, raised |-> FALSE]
    ELSE IF check /\ proc.returncode # 0
    THEN [ok |-> FALSE, result |-> Some(proc), raised |-> FALSE]
    ELSE [ok |-> TRUE, result |-> Some(proc), raised |-> FALSE]

(* What can go wrong in one run_ssh_command call, in the order of the code: *)
(*   connect      ssh.connect raises before a transport exists             *)
(*   auth         ssh.connect raises AuthenticationException on the        *)
(*                established transport                                    *)
(*   exec         ssh.exec_command raises SSHException                     *)
(*   timeout      stdout.read() / stderr.read() raises socket.timeout      *)
(*   decode       .decode('utf-8') raises UnicodeDecodeError               *)
SshFaults == {"none", "connect", "auth", "exec", "timeout", "decode"}

\* the faults that occur with the transport to the server established
Established == {"none", "auth", "exec", "timeout", "decode"}

\* the exception each fault raises
FaultClass(fault) ==
    CASE fault = "connect" -> "OSError"
      [] fault = "auth" -> "AuthenticationException"
      [] fault = "exec" -> "SSHException"
      [] fault = "timeout" -> "socket.timeout"
      [] fault = "decode" -> "UnicodeDecodeError"

\* isinstance(e, paramiko.SSHException)
IsSSHException(cls) ==
    cls \in {"SSHException", "AuthenticationException"}

\* isinstance(e, Exception)
IsException(cls) ==
    cls \in {"OSError", "socket.timeout", "UnicodeDecodeError", "SSHException",
              "AuthenticationException"}

\* run_ssh_command without its last clause, except Exception
HandledParamikoOnly(cls) ==
    \/ cls = "AuthenticationException"
    \/ IsSSHException(cls)

\* the three except clauses of run_ssh_command
Handled(cls) ==
    \/ cls = "AuthenticationException"
    \/ IsSSHException(cls)
    \/ IsException(cls)

(* proc is what the remote command produces: [returncode, stdout, stderr]. *)
(* opened: a connection to the server was established by this call;        *)
(* closed: the call reached ssh.close().                                   *)
run_ssh_command(fault, proc) ==
    IF fault = "none"
    THEN IF proc.returncode # 0
         THEN [ok |-> FALSE, result |-> Some(proc), raised |-> FALSE,
               opened |-> TRUE, closed |-> TRUE]
         ELSE [ok |-> TRUE, result |-> Some(proc), raised |-> FALSE,
               opened |-> TRUE, closed |-> TRUE]
    ELSE IF Handled(FaultClass(fault))
    THEN \* return False, None
         [ok |-> FALSE, result |-> None, raised |-> FALSE,
          opened |-> fault \in Established, closed |-> FALSE]
    ELSE [ok |-> FALSE, result |-> None, raised |-> TRUE,
          opened |-> fault \in Established, closed |-> FALSE]

\* execute_ssh_command without the check of the loaded configuration
execute_ssh_command_unchecked(file, fault, proc) ==
    run_ssh_command(fault, proc)

execute_ssh_command(file, fault, proc) ==
    LET c == LoadConfig(file) IN
    IF Falsy(c.host) \/ Falsy(c.user)
    THEN [ok |-> FALSE, result |-> None, raised |-> FALSE, opened |-> FALSE,
          closed |-> FALSE]
    ELSE run_ssh_command(fault, proc)

-----------------------------------------------------------------------------
(* File transfer, probes and temporary files (src/termux_utils.py).        *)

(* spawn and proc are the outcome of the scp command line.  ran tells      *)
(* whether scp was started at all.                                         *)
push_file_to_android(file, spawn, proc) ==
    LET c == LoadConfig(file) IN
    IF Falsy(c.host) \/ Falsy(c.user) THEN [ret |-> FALSE, ran |-> FALSE]
    ELSE LET r == run_command(spawn, proc, FALSE) IN
         IF ~r.ok THEN [ret |-> FALSE, ran |-> spawn = "ok"]
         ELSE [ret |-> TRUE, ran |-> spawn = "ok"]

push_directory_to_android(file, spawn, proc) ==
    LET c == LoadConfig(file) IN
    IF Falsy(c.host) \/ Falsy(c.user) THEN [ret |-> FALSE, ran |-> FALSE]
    ELSE LET r == run_command(spawn, proc, FALSE) IN
         IF ~r.ok THEN [ret |-> FALSE, ran |-> spawn = "ok"]
         ELSE [ret |-> TRUE, ran |-> spawn = "ok"]

check_file_exists_on_android(file, fault, proc) ==
    execute_ssh_command(file, fault, proc).ok

check_directory_exists_on_android(file, fault, proc) ==
    execute_ssh_command(file, fault, proc).ok

get_file_info_on_android(file, fault, proc) ==
    LET r == execute_ssh_command(file, fault, proc) IN
    IF ~r.ok THEN None ELSE Some(Strip(r.result[1].stdout))

(* NamedTemporaryFile(delete=False) creates the file; writeFail is         *)
(* tmp_file.write(content) raising, which leaves the file behind.          *)
create_temp_file(writeFail) ==
    [raised |-> writeFail, exists |-> TRUE]

(* How the try block of the two staging helpers can be cut short:          *)
(* "exception" is an Exception raised inside push_file_to_android,         *)
(* "keyboard" a KeyboardInterrupt (not an Exception).                      *)
Interrupts == {"none", "exception", "keyboard"}

\* push_content_to_android unlinking after the push instead of in a finally
push_content_to_android_no_finally(writeFail, interrupt, file, spawn, proc) ==
    LET tmp == create_temp_file(writeFail) IN
    IF tmp.raised
    THEN [raised |-> TRUE, ret |-> None, exists |-> tmp.exists, ran |-> FALSE]
    ELSE IF interrupt # "none"
    THEN [raised |-> TRUE, ret |-> None, exists |-> tmp.exists, ran |-> FALSE]
    ELSE LET success == push_file_to_android(file, spawn, proc) IN
         [raised |-> FALSE, ret |-> Some(success.ret), exists |-> FALSE,
          ran |-> success.ran]

(* exists: whether the temporary file is still on disk when the call ends. *)
push_content_to_android(writeFail, interrupt, file, spawn, proc) ==
    LET tmp == create_temp_file(writeFail) IN
    IF tmp.raised
    THEN [raised |-> TRUE, ret |-> None, exists |-> tmp.exists, ran |-> FALSE]
    ELSE IF interrupt # "none"
    THEN \* finally: os.unlink(tmp_path)
         [raised |-> TRUE, ret |-> None, exists |-> FALSE, ran |-> FALSE]
    ELSE LET success == push_file_to_android(file, spawn, proc) IN
         [raised |-> FALSE, ret |-> Some(success.ret), exists |-> FALSE,
          ran |-> success.ran]

(* download = "fail" when urllib.request.urlretrieve raises.               *)
download_and_push_to_android(download, interrupt, file, spawn, proc) ==
    IF download = "fail" \/ interrupt = "exception"
    THEN \* except Exception: return False; finally: os.unlink(tmp_path)
         [raised |-> FALSE, ret |-> Some(FALSE), exists |-> FALSE, ran |-> FALSE]
    ELSE IF interrupt = "keyboard"
    THEN [raised |-> TRUE, ret |-> None, exists |-> FALSE, ran |-> FALSE]
    ELSE LET success == push_file_to_android(file, spawn, proc) IN
         [raised |-> FALSE, ret |-> Some(success.ret), exists |-> FALSE,
          ran |-> success.ran]

-----------------------------------------------------------------------------
(* The environment of termux_utils: the configuration file, the local      *)
(* commands, the SSH server and the remote filesystem.                     *)

Paths == {"/sdcard/a", "/sdcard/b"}

\* what a local or remote process can end with
Procs ==
    { [returncode |-> 0, stdout |-> <<"out", NL>>, stderr |-> <<>>],
      [returncode |-> 0, stdout |-> <<>>, stderr |-> <<>>],
      [returncode |-> 1, stdout |-> <<>>, stderr |-> <<"err", NL>>] }

\* the remote shell running "test -f path"
TestF(path) ==
    [returncode |-> IF path \in remoteFiles THEN 0 ELSE 1, stdout |-> <<>>, stderr |-> <<>>]

\* the remote shell running "test -d path"
TestD(path) ==
    [returncode |-> IF path \in remoteDirs THEN 0 ELSE 1, stdout |-> <<>>, stderr |-> <<>>]

\* the remote shell running "ls -la path"
LsLa(path) ==
    IF path \in remoteFiles \cup remoteDirs
    THEN [returncode |-> 0, stdout |-> <<"-rw-", SP, path, NL>>, stderr |-> <<>>]
    ELSE [returncode |-> 2, stdout |-> <<>>, stderr |-> <<"ls:", SP, path, NL>>]

(* scp exits 0 exactly when it has written the remote file; a failed       *)
(* transfer (no route, rejected key, missing local file or remote          *)
(* directory) exits non-zero and writes nothing.                           *)
ScpProcs ==
    { [returncode |-> 0, stdout |-> <<>>, stderr |-> <<>>],
      [returncode |-> 1, stdout |-> <<>>, stderr |-> <<"scp:", SP, "failed", NL>>] }

Transferred(ran, proc) ==
    ran /\ proc.returncode = 0

\* the connections a call leaves open: gc is the interpreter reclaiming the
\* unreferenced SSHClient (and closing its transport) as the call returns
Leaked(r, gc) ==
    IF r.opened /\ ~r.closed /\ ~gc THEN 1 ELSE 0

NoPush == [op |-> "other", path |-> "", ret |-> FALSE, fresh |-> FALSE, cfgok |-> FALSE]

\* what the next call remembers of the call before it
Summary(l) ==
    IF l.op = "push_file_to_android"
    THEN [op |-> l.op, path |-> l.path, ret |-> l.ret, fresh |-> l.fresh, cfgok |-> l.cfgok]
    ELSE NoPush

ConfigLoaded(file) ==
    LoadConfig(file) # NoConfig

-----------------------------------------------------------------------------
(* The calls of termux_utils, one action per call.                         *)

Start == [op |-> "start"]

UtilInit ==
    /\ utilCfg = None
    /\ openConns = 0
    /\ localTmp = {}
    /\ remoteFiles = {}
    /\ remoteDirs = {}
    /\ last = Start
    /\ prev = NoPush

\* the operator edits or deletes termux-user.txt between two calls
WriteUtilCfg ==
    /\ \E f \in UtilCfgStates : utilCfg' = f
    /\ UNCHANGED <<openConns, localTmp, remoteFiles, remoteDirs, last, prev>>
    /\ UNCHANGED clientVars
    /\ UNCHANGED driverVars

\* something else on the device creates or removes a path
EnvRemoteChange ==
    /\ \E path \in Paths, kind \in {"absent", "file", "dir"} :
          /\ remoteFiles' = IF kind = "file" THEN remoteFiles \cup {path}
                            ELSE remoteFiles \ {path}
          /\ remoteDirs' = IF kind = "dir" THEN remoteDirs \cup {path}
                           ELSE remoteDirs \ {path}
    /\ last' = [op |-> "env"]
    /\ prev' = Summary(last)
    /\ UNCHANGED <<utilCfg, openConns, localTmp>>
    /\ UNCHANGED clientVars
    /\ UNCHANGED driverVars

LocalRun ==
    /\ \E spawn \in {"ok", "raise"}, proc \in Procs, check \in BOOLEAN :
          LET r == run_command(spawn, proc, check) IN
          last' = [op |-> "run_command", spawn |-> spawn, proc |-> proc, check |-> check,
                   raised |-> r.raised, ok |-> r.ok, result |-> r.result]
    /\ prev' = Summary(last)
    /\ UNCHANGED <<utilCfg, openConns, localTmp, remoteFiles, remoteDirs>>
    /\ UNCHANGED clientVars
    /\ UNCHANGED driverVars

SshRun ==
    /\ \E fault \in SshFaults, proc \in Procs, gc \in BOOLEAN :
          LET r == run_ssh_command(fault, proc) IN
          /\ openConns + Leaked(r, gc) <= MaxConns
          /\ openConns' = openConns + Leaked(r, gc)
          /\ last' = [op |-> "run_ssh_command", fault |-> fault, proc |-> proc,
                      raised |-> r.raised, ok |-> r.ok, result |-> r.result,
                      opened |-> r.opened, closed |-> r.closed]
    /\ prev' = Summary(last)
    /\ UNCHANGED <<utilCfg, localTmp, remoteFiles, remoteDirs>>
    /\ UNCHANGED clientVars
    /\ UNCHANGED driverVars

PushFile ==
    /\ \E path \in Paths, spawn \in {"ok", "raise"}, proc \in ScpProcs :
          LET r == push_file_to_android(utilCfg, spawn, proc) IN
          /\ proc.returncode = 0 => path \notin remoteDirs
          /\ remoteFiles' = IF Transferred(r.ran, proc) THEN remoteFiles \cup {path}
                            ELSE remoteFiles
          /\ last' = [op |-> "push_file_to_android", path |-> path,
                      cfgok |-> ConfigLoaded(utilCfg),
                      fresh |-> path \notin remoteFiles \cup remoteDirs,
                      spawn |-> spawn, proc |-> proc, ran |-> r.ran, ret |-> r.ret]
    /\ prev' = Summary(last)
    /\ UNCHANGED <<utilCfg, openConns, localTmp, remoteDirs>>
    /\ UNCHANGED clientVars
    /\ UNCHANGED driverVars

PushDirectory ==
    /\ \E path \in Paths, spawn \in {"ok", "raise"}, proc \in ScpProcs :
          LET r == push_directory_to_android(utilCfg, spawn, proc) IN
          /\ proc.returncode = 0 => path \notin remoteFiles
          /\ remoteDirs' = IF Transferred(r.ran, proc) THEN remoteDirs \cup {path}
                           ELSE remoteDirs
          /\ last' = [op |-> "push_directory_to_android", path |-> path,
                      cfgok |-> ConfigLoaded(utilCfg),
                      spawn |-> spawn, proc |-> proc, ran |-> r.ran, ret |-> r.ret]
    /\ prev' = Summary(last)
    /\ UNCHANGED <<utilCfg, openConns, localTmp, remoteFiles>>
    /\ UNCHANGED clientVars
    /\ UNCHANGED driverVars

\* the three probes: kind names the function, proc what its remote command yields
Probe(kind, path, fault, gc) ==
    LET proc == CASE kind = "check_file_exists_on_android" -> TestF(path)
                  [] kind = "check_directory_exists_on_android" -> TestD(path)
                  [] kind = "get_file_info_on_android" -> LsLa(path)
        r == execute_ssh_command(utilCfg, fault, proc)
        ret == CASE kind = "check_file_exists_on_android" ->
                        Some(check_file_exists_on_android(utilCfg, fault, proc))
                 [] kind = "check_directory_exists_on_android" ->
                        Some(check_directory_exists_on_android(utilCfg, fault, proc))
                 [] kind = "get_file_info_on_android" ->
                        get_file_info_on_android(utilCfg, fault, proc)
    IN
    /\ openConns + Leaked(r, gc) <= MaxConns
    /\ openConns' = openConns + Leaked(r, gc)
    /\ last' = [op |-> kind, path |-> path, cfgok |-> ConfigLoaded(utilCfg),
                fault |-> fault, proc |-> proc, raised |-> r.raised, ret |-> ret]
    /\ prev' = Summary(last)
    /\ UNCHANGED <<utilCfg, localTmp, remoteFiles, remoteDirs>>
    /\ UNCHANGED clientVars
    /\ UNCHANGED driverVars

CheckFile ==
    \E path \in Paths, fault \in SshFaults, gc \in BOOLEAN :
        Probe("check_file_exists_on_android", path, fault, gc)

CheckDirectory ==
    \E path \in Paths, fault \in SshFaults, gc \in BOOLEAN :
        Probe("check_directory_exists_on_android", path, fault, gc)

GetFileInfo ==
    \E path \in Paths, fault \in SshFaults, gc \in BOOLEAN :
        Probe("get_file_info_on_android", path, fault, gc)

\* tempfile never hands out the name of a file that exists
FreshTmp ==
    CHOOSE n \in 1..(MaxTmp + 1) : n \notin localTmp /\ \A m \in 1..(n - 1) : m \in localTmp

PushContent ==
    /\ \E path \in Paths, writeFail \in BOOLEAN, interrupt \in Interrupts,
          spawn \in {"ok", "raise"}, proc \in ScpProcs :
          LET r == push_content_to_android(writeFail, interrupt, utilCfg, spawn, proc) IN
          /\ proc.returncode = 0 => path \notin remoteDirs
          /\ r.exists => Cardinality(localTmp) < MaxTmp
          /\ localTmp' = IF r.exists THEN localTmp \cup {FreshTmp} ELSE localTmp
          /\ remoteFiles' = IF Transferred(r.ran, proc) THEN remoteFiles \cup {path}
                            ELSE remoteFiles
          /\ last' = [op |-> "push_content_to_android", path |-> path, tmp |-> FreshTmp,
                      created |-> ~writeFail, interrupt |-> interrupt,
                      cfgok |-> ConfigLoaded(utilCfg), spawn |-> spawn, proc |-> proc,
                      raised |-> r.raised, ret |-> r.ret]
    /\ prev' = Summary(last)
    /\ UNCHANGED <<utilCfg, openConns, remoteDirs>>
    /\ UNCHANGED clientVars
    /\ UNCHANGED driverVars

DownloadAndPush ==
    /\ \E path \in Paths, download \in {"ok", "fail"}, interrupt \in Interrupts,
          spawn \in {"ok", "raise"}, proc \in ScpProcs :
          LET r == download_and_push_to_android(download, interrupt, utilCfg, spawn, proc) IN
          /\ proc.returncode = 0 => path \notin remoteDirs
          /\ r.exists => Cardinality(localTmp) < MaxTmp
          /\ localTmp' = IF r.exists THEN localTmp \cup {FreshTmp} ELSE localTmp
          /\ remoteFiles' = IF Transferred(r.ran, proc) THEN remoteFiles \cup {path}
                            ELSE remoteFiles
          /\ last' = [op |-> "download_and_push_to_android", path |-> path, tmp |-> FreshTmp,
                      download |-> download, interrupt |-> interrupt,
                      cfgok |-> ConfigLoaded(utilCfg), spawn |-> spawn, proc |-> proc,
                      raised |-> r.raised, ret |-> r.ret]
    /\ prev' = Summary(last)
    /\ UNCHANGED <<utilCfg, openConns, remoteDirs>>
    /\ UNCHANGED clientVars
    /\ UNCHANGED driverVars

ClientIdle ==
    /\ clientFile = None
    /\ config = EmptyConfig
    /\ clientLog = [ret |-> FALSE, missing |-> <<>>, why |-> "new"]
    /\ clientCalls = 0

\* no driver script has been started
NoScript == [name |-> "none"]

DriverIdle ==
    script = NoScript

Init ==
    UtilInit /\ ClientIdle /\ DriverIdle

(* Remote sessions and probes.                                             *)
Next ==
    \/ WriteUtilCfg
    \/ EnvRemoteChange
    \/ LocalRun
    \/ SshRun
    \/ CheckFile
    \/ CheckDirectory
    \/ GetFileInfo

Spec == Init /\ [][Next]_vars

(* File transfer followed by probes.                                       *)
NextTransfer ==
    \/ WriteUtilCfg
    \/ EnvRemoteChange
    \/ PushFile
    \/ PushDirectory
    \/ CheckFile

SpecTransfer == Init /\ [][NextTransfer]_vars

(* Staging content in temporary files.                                     *)
NextStaging ==
    \/ WriteUtilCfg
    \/ PushContent
    \/ DownloadAndPush

SpecStaging == Init /\ [][NextStaging]_vars

-----------------------------------------------------------------------------
(* TermuxSSHClient: construction, read_config, and the operator editing    *)
(* the configuration file.                                                 *)

SeqsUpTo(A, n) ==
    UNION {[1..k -> A] : k \in 0..n}

\* the lines an operator writes into termux-user.txt
ClientLines ==
    { <<"host", EQ, "10.0.0.2">>,
      <<"port", EQ, "8022">>,
      <<"user", EQ, "u0_a1">>,
      <<SP, "host", SP, EQ, SP, DQ, "termux", DQ>> }

\* TermuxSSHClient.__init__
NewClient ==
    /\ config' = EmptyConfig
    /\ clientLog' = [ret |-> FALSE, missing |-> <<>>, why |-> "new"]
    /\ clientCalls' = 0
    /\ UNCHANGED clientFile
    /\ UNCHANGED utilVars
    /\ UNCHANGED driverVars

ClientAppendLine ==
    /\ \E l \in ClientLines :
          /\ IF clientFile = None THEN TRUE ELSE Len(clientFile[1]) < MaxLines
          /\ clientFile' = IF clientFile = None THEN Some(<<l>>)
                           ELSE Some(Append(clientFile[1], l))
    /\ UNCHANGED <<config, clientLog, clientCalls>>
    /\ UNCHANGED utilVars
    /\ UNCHANGED driverVars

ClientRemoveFile ==
    /\ clientFile # None
    /\ clientFile' = None
    /\ UNCHANGED <<config, clientLog, clientCalls>>
    /\ UNCHANGED utilVars
    /\ UNCHANGED driverVars

\* the points at which reading the file can raise: never (-1), or after k lines
FailPoints(file) ==
    IF file = None THEN {-1} ELSE {-1} \cup (0..Len(file[1]))

ReadConfig ==
    /\ clientCalls < MaxCalls
    /\ \E failAt \in FailPoints(clientFile) :
          LET r == ReadConfigCall(config, clientFile, failAt) IN
          /\ config' = r.config
          /\ clientLog' = [ret |-> r.ret, missing |-> r.missing, why |-> r.why]
    /\ clientCalls' = clientCalls + 1
    /\ UNCHANGED clientFile
    /\ UNCHANGED utilVars
    /\ UNCHANGED driverVars

NextClient ==
    \/ NewClient
    \/ ClientAppendLine
    \/ ClientRemoveFile
    \/ ReadConfig

SpecClient == Init /\ [][NextClient]_vars

(* read_config as a function of the file: one fresh client per file, the   *)
(* file drawn from key=value lines with every shape of value, alone or     *)
(* next to other lines, and from files of comments and blank lines.        *)

ValueTokens == {"a", SP, DQ, SQ, EQ, HASH}

KeyValueLines ==
    { pad \o <<key>> \o pad \o <<EQ>> \o value :
        pad \in {<<>>, <<SP>>}, key \in {"host", "user"},
        value \in SeqsUpTo(ValueTokens, MaxValLen) }

SkippedLines ==
    { <<>>, <<SP>>, <<HASH, SP, "host", EQ, "a">>, <<SP, HASH>> }

ParseFiles ==
    { <<l>> : l \in KeyValueLines }
    \cup { <<<<"host", EQ, "10.0.0.2">>, l>> : l \in KeyValueLines }
    \cup { <<l, <<HASH, SP, "host", EQ, "a">>>> : l \in KeyValueLines }
    \cup { <<l, <<"port", EQ, "8022">>, <<"user", EQ, "u0_a1">>>> : l \in KeyValueLines }
    \cup SeqsUpTo(SkippedLines, MaxLines)

ParseInit ==
    /\ UtilInit
    /\ clientFile \in {Some(f) : f \in ParseFiles}
    /\ config = EmptyConfig
    /\ clientLog = [ret |-> FALSE, missing |-> <<>>, why |-> "new"]
    /\ clientCalls = 0
    /\ DriverIdle

\* the first read_config call of a client
ReadFresh ==
    clientCalls = 0 /\ ReadConfig

SpecParse == ParseInit /\ [][ReadFresh]_vars

-----------------------------------------------------------------------------
(* Properties of the remote session client and the command runner.         *)

SshCalls ==
    {"run_ssh_command"}

\* C1: after any sequence of run_ssh_command calls (made directly or by the
\* probes) no connection opened by them is still open: every exit path of
\* run_ssh_command has closed the connection it opened.
C1_NoConnectionLeftOpen ==
    openConns = 0

C5_RunCommandResult ==
    last.op = "run_command" =>
        /\ ~last.raised
        /\ last.spawn = "raise" => (~last.ok /\ last.result = None)
        /\ last.spawn = "ok" =>
              /\ last.result = Some(last.proc)
              /\ ~last.ok <=> (last.check /\ last.proc.returncode # 0)
        /\ last.result = None => last.spawn = "raise"

\* a non-zero exit status with check false is reported as success
C5_Witness ==
    /\ last.op = "run_command"
    /\ last.spawn = "ok"
    /\ ~last.check
    /\ last.proc.returncode # 0
    /\ last.ok

\* C7: the existence probes return True if and only if the configuration
\* loaded, the SSH connection succeeded and the remote test command exited
\* 0; in every other case they return False without raising, and
\* get_file_info_on_android returns None in those cases.
C7_ProbeResult ==
    LET reached == last.cfgok /\ last.fault = "none" /\ last.proc.returncode = 0 IN
    /\ last.op = "check_file_exists_on_android" =>
          /\ ~last.raised
          /\ last.ret = Some(reached)
          /\ reached => last.path \in remoteFiles
    /\ last.op = "check_directory_exists_on_android" =>
          /\ ~last.raised
          /\ last.ret = Some(reached)
          /\ reached => last.path \in remoteDirs
    /\ last.op = "get_file_info_on_android" =>
          /\ ~last.raised
          /\ ~reached => last.ret = None

\* a probe of an existing file that fails to connect, and so answers False
C7_Witness ==
    /\ last.op = "check_file_exists_on_android"
    /\ last.path \in remoteFiles
    /\ last.cfgok
    /\ last.fault = "auth"
    /\ last.ret = Some(FALSE)

-----------------------------------------------------------------------------
(* Properties of the file transfer client.                                 *)

PushCalls ==
    {"push_file_to_android", "push_directory_to_android"}

\* C2: push_file_to_android and push_directory_to_android return False
\* whenever the scp command exits with a non-zero status, and return True
\* only when the transfer command exited 0.
C2_PushReportsTransferFailure ==
    last.op \in PushCalls =>
        (last.ret <=> (last.ran /\ last.proc.returncode = 0))

\* C6: for a remote path that did not exist beforehand, with a valid
\* configuration and a reachable endpoint, check_file_exists_on_android
\* called right after push_file_to_android on that path returns True if and
\* only if the push returned True.
C6_ProbeAgreesWithPush ==
    ( /\ last.op = "check_file_exists_on_android"
      /\ prev.op = "push_file_to_android"
      /\ prev.path = last.path
      /\ prev.fresh
      /\ prev.cfgok
      /\ last.cfgok
      /\ last.fault = "none" )
    => (last.ret = Some(TRUE) <=> prev.ret)

-----------------------------------------------------------------------------
(* Properties of TermuxSSHClient.read_config.  What a configuration file   *)
(* says is stated here directly on its text, without the parser.           *)

NonBlank(s) ==
    {i \in 1..Len(s) : s[i] \notin Whitespace}

\* s without its leading and trailing whitespace
Trimmed(s) ==
    IF NonBlank(s) = {} THEN <<>>
    ELSE SubSeq(s, CHOOSE i \in NonBlank(s) : \A j \in NonBlank(s) : i <= j,
                   CHOOSE i \in NonBlank(s) : \A j \in NonBlank(s) : i >= j)

IsBlankOrComment(line) ==
    Trimmed(line) = <<>> \/ Trimmed(line)[1] = HASH

IsKeyValue(line) ==
    ~IsBlankOrComment(line) /\ \E i \in 1..Len(line) : line[i] = EQ

FirstEq(line) ==
    CHOOSE i \in 1..Len(line) : line[i] = EQ /\ \A j \in 1..(i - 1) : line[j] # EQ

KeyOf(line) ==
    Trimmed(SubSeq(line, 1, FirstEq(line) - 1))

RawValueOf(line) ==
    SubSeq(line, FirstEq(line) + 1, Len(line))

\* a value with its surrounding whitespace and one matching pair of
\* surrounding quotes removed
Unquoted(v) ==
    LET t == Trimmed(v) IN
    IF Len(t) >= 2 /\ t[1] \in {DQ, SQ} /\ t[Len(t)] = t[1]
    THEN SubSeq(t, 2, Len(t) - 1)
    ELSE t

\* the lines of the file that give key k a value
LinesFor(lines, k) ==
    {i \in 1..Len(lines) : IsKeyValue(lines[i]) /\ KeyOf(lines[i]) = k}

KeysOf(lines) ==
    {KeyOf(lines[i]) : i \in {j \in 1..Len(lines) : IsKeyValue(lines[j])}}

LastLineFor(lines, k) ==
    CHOOSE i \in LinesFor(lines, k) : \A j \in LinesFor(lines, k) : j <= i

\* the required keys the file lacks, in the order host, port, user
LackedFields(lines) ==
    LET Lacked(field) == LinesFor(lines, field) = {} IN
    SelectSeq(<<<<"host">>, <<"port">>, <<"user">>>>, Lacked)

\* a read_config call that read the whole file
ReadThrough ==
    clientLog.why \in {"missing", "loaded"}

\* C8: on a freshly constructed client, for a file whose keys lack a
\* non-empty subset M of {host, port, user}, read_config returns False and
\* reports exactly M, all at once, in the order host, port, user; when no
\* required key is missing it returns True.
C8_MissingFieldsReported ==
    [][ (clientCalls = 0 /\ clientCalls' = 1 /\ ReadThrough')
        => /\ clientLog'.missing = LackedFields(clientFile[1])
           /\ clientLog'.ret = (LackedFields(clientFile[1]) = <<>>) ]_vars

\* a first call on a file with only a host line: port and user named together
C8_Witness ==
    /\ clientCalls = 1
    /\ clientFile # None
    /\ ~clientLog.ret
    /\ clientLog.missing = <<<<"port">>, <<"user">>>>
    /\ DOMAIN config = {<<"host">>}

\* a quoted value is well formed when both quotes are there
WellFormed(line) ==
    IsKeyValue(line) => Trimmed(RawValueOf(line)) \notin {<<DQ>>, <<SQ>>}

C10_NoPartialConfig ==
    [][ (clientCalls' = clientCalls + 1 /\ ~clientLog'.ret) => config' = config ]_vars

-----------------------------------------------------------------------------
(* The two configuration loaders on the same file: one fresh               *)
(* TermuxSSHClient and one call of read_termux_ssh_config per file.        *)

\* host, port and user lines: plain, quoted, repeated, and ports that are no
\* positive number
LoaderLines ==
    { <<"host", EQ, "h1">>,
      <<"host", EQ, "h2">>,
      <<"host", EQ, DQ, "h1", DQ>>,
      <<"user", EQ, "u1">>,
      <<"user", EQ, SP, SQ, "u2", SQ, SP>>,
      <<"port", EQ, "8022">>,
      <<"port", EQ, "0">>,
      <<"port", EQ, "-5">>,
      <<"port", EQ, "x">>,
      <<"port", EQ>> }

LoaderInit ==
    /\ \E f \in SeqsUpTo(LoaderLines, MaxLines) :
          /\ utilCfg = Some(f)
          /\ clientFile = Some(f)
    /\ openConns = 0
    /\ localTmp = {}
    /\ remoteFiles = {}
    /\ remoteDirs = {}
    /\ last = Start
    /\ prev = NoPush
    /\ config = EmptyConfig
    /\ clientLog = [ret |-> FALSE, missing |-> <<>>, why |-> "new"]
    /\ clientCalls = 0
    /\ DriverIdle

\* host, port, user = read_termux_ssh_config()
LoadUtil ==
    /\ last = Start
    /\ last' = [op |-> "read_termux_ssh_config", result |-> read_termux_ssh_config(utilCfg)]
    /\ UNCHANGED <<utilCfg, openConns, localTmp, remoteFiles, remoteDirs, prev>>
    /\ UNCHANGED clientVars
    /\ UNCHANGED driverVars

NextLoaders ==
    \/ ReadFresh
    \/ LoadUtil

SpecLoaders == LoaderInit /\ [][NextLoaders]_vars

-----------------------------------------------------------------------------
(* Properties of the two loaders.                                          *)

\* C11: the configuration is created fresh on every load: after each
\* read_config call that read its file, the config mapping holds exactly the
\* keys and values of that file, so a key of an earlier file never survives
\* and never satisfies the required-key check of a later load.
C11_ConfigFreshOnEveryLoad ==
    [][ (clientCalls' = clientCalls + 1 /\ ReadThrough')
        => /\ DOMAIN config' = KeysOf(clientFile[1])
           /\ clientLog'.ret = (LackedFields(clientFile[1]) = <<>>) ]_vars

\* the text is a positive decimal number
IsPositiveNumber(text) ==
    Trimmed(text) \in {<<"8022">>}

\* the lines read_termux_ssh_config takes as lines of key k
UtilLinesFor(lines, k) ==
    {i \in 1..Len(lines) : Len(Trimmed(lines[i])) >= 2
                           /\ Trimmed(lines[i])[1] = k /\ Trimmed(lines[i])[2] = EQ}

UtilLastLineFor(lines, k) ==
    CHOOSE i \in UtilLinesFor(lines, k) : \A j \in UtilLinesFor(lines, k) : j <= i

\* the text after "key=" on line i
UtilRawValue(lines, i) ==
    SubSeq(Trimmed(lines[i]), 3, Len(Trimmed(lines[i])))

\* the file gives a port, and the port it gives is no positive number
HasBadPort(lines) ==
    /\ LinesFor(lines, <<"port">>) # {}
    /\ ~IsPositiveNumber(RawValueOf(lines[LastLineFor(lines, <<"port">>)]))

\* C12: a configuration whose port value does not parse as a positive
\* integer (non-numeric, empty, zero or negative) fails to load in both
\* loaders: read_config returns False and read_termux_ssh_config returns
\* (None, None, None).
C12_BadPortRejected ==
    /\ (clientCalls = 1 /\ ReadThrough /\ HasBadPort(clientFile[1])) => ~clientLog.ret
    /\ (last.op = "read_termux_ssh_config" /\ HasBadPort(utilCfg[1]))
          => last.result = NoConfig

\* C13: read_termux_ssh_config unquotes values on load: the host and user
\* it returns are the values of their lines without surrounding whitespace
\* and without a matching pair of surrounding quotes.
C13_UtilValuesUnquoted ==
    (last.op = "read_termux_ssh_config" /\ last.result # NoConfig) =>
        LET lines == utilCfg[1] IN
        /\ last.result.host
              = Some(Unquoted(UtilRawValue(lines, UtilLastLineFor(lines, "host"))))
        /\ last.result.user
              = Some(Unquoted(UtilRawValue(lines, UtilLastLineFor(lines, "user"))))

-----------------------------------------------------------------------------
(* Device enumeration: the output of "adb devices" as scrcpy.py,           *)
(* install-termux.py and setup-android-phone.py read it.                   *)

\* 'device' in token
HasMarker(token) ==
    token \in {"device", "devices", "device01"}

\* 'device' in line
MarkerIn(line) ==
    \E i \in 1..Len(line) : HasMarker(line[i])

\* s.split('\n')
RECURSIVE SplitLines(_)
SplitLines(s) ==
    IF Contains(s, NL) THEN <<Split1(s, NL)[1]>> \o SplitLines(Split1(s, NL)[2])
    ELSE <<s>>

\* line.split('\t')[0]
FirstField(line) ==
    IF Contains(line, TAB) THEN Split1(line, TAB)[1] ELSE line

\* DeviceLines that does not skip the header
DeviceLinesWithHeader(stdout) ==
    LET Listed(line) == Strip(line) # <<>> /\ MarkerIn(line)
    IN SelectSeq(SplitLines(Strip(stdout)), Listed)

\* lines = result.stdout.strip().split('\n')[1:]
\* devices = [line for line in lines if line.strip() and 'device' in line]
DeviceLines(stdout) ==
    LET lines == Tail(SplitLines(Strip(stdout)))
        Listed(line) == Strip(line) # <<>> /\ MarkerIn(line)
    IN SelectSeq(lines, Listed)

\* how one run of "adb devices" ends
AdbRuns == {"zero", "nonzero", "timeout", "raise"}

\* ScrcpyRunner.check_adb_connection; adb_path is whether self.adb_path is set
check_adb_connection(adb_path, run, stdout) ==
    IF ~adb_path THEN FALSE
    ELSE IF run \in {"timeout", "raise"} THEN FALSE
    ELSE IF run # "zero" THEN FALSE
    ELSE DeviceLines(stdout) # <<>>

\* ScrcpyRunner.list_devices
list_devices(adb_path, run, stdout) ==
    IF ~adb_path THEN <<>>
    ELSE IF run \in {"timeout", "raise"} THEN <<>>
    ELSE IF run # "zero" THEN <<>>
    ELSE [i \in 1..Len(DeviceLines(stdout)) |-> FirstField(DeviceLines(stdout)[i])]

\* run_command of setup-android-phone.py: the success flag it returns
setup_run_command(run, check) ==
    IF run \in {"timeout", "raise"} THEN FALSE
    ELSE IF check /\ run # "zero" THEN FALSE
    ELSE TRUE

\* how a command started by setup-android-phone.py ends (it sets no timeout)
AdbOutcomes == {"zero", "nonzero", "raise"}

\* check_adb_connection of setup-android-phone.py; which is shutil.which("adb")
setup_check_adb_connection(which, run, stdout) ==
    IF ~which THEN FALSE
    ELSE IF ~setup_run_command(run, FALSE) THEN FALSE
    ELSE DeviceLines(stdout) # <<>>

\* check_adb_connection of install-termux.py, on termux_utils.run_command
install_check_adb_connection(which, spawn, proc) ==
    IF ~which THEN FALSE
    ELSE IF ~run_command(spawn, proc, FALSE).ok THEN FALSE
    ELSE DeviceLines(proc.stdout) # <<>>

\* lines "adb devices" prints: the header, devices in several states, blank
\* lines and a message of the adb server
AdbLines ==
    { <<"List", SP, "of", SP, "devices", SP, "attached">>,
      <<"emulator-5554", TAB, "device">>,
      <<"0123abc", TAB, "offline">>,
      <<"device01", TAB, "unauthorized">>,
      <<>>,
      <<SP>>,
      <<"*", SP, "daemon", SP, "started">> }

\* the text of the lines, each ended by a newline
RECURSIVE Printed(_)
Printed(lines) ==
    IF lines = <<>> THEN <<>> ELSE Head(lines) \o <<NL>> \o Printed(Tail(lines))

AdbOutputs == SeqsUpTo(AdbLines, MaxOutputLines)

ScrcpyCheckAdb ==
    /\ script = NoScript
    /\ \E adb_path \in BOOLEAN, run \in AdbRuns, lines \in AdbOutputs :
          script' = [name |-> "scrcpy.check_adb_connection",
                     adb |-> adb_path, run |-> run, lines |-> lines,
                     ret |-> check_adb_connection(adb_path, run, Printed(lines))]
    /\ UNCHANGED <<utilVars, clientVars>>

ScrcpyListDevices ==
    /\ script = NoScript
    /\ \E adb_path \in BOOLEAN, run \in AdbRuns, lines \in AdbOutputs :
          script' = [name |-> "scrcpy.list_devices",
                     adb |-> adb_path, run |-> run, lines |-> lines,
                     ret |-> list_devices(adb_path, run, Printed(lines))]
    /\ UNCHANGED <<utilVars, clientVars>>

SetupCheckAdb ==
    /\ script = NoScript
    /\ \E which \in BOOLEAN, run \in AdbOutcomes, lines \in AdbOutputs :
          script' = [name |-> "setup-android-phone.check_adb_connection",
                     adb |-> which, run |-> run, lines |-> lines,
                     ret |-> setup_check_adb_connection(which, run, Printed(lines))]
    /\ UNCHANGED <<utilVars, clientVars>>

InstallCheckAdb ==
    /\ script = NoScript
    /\ \E which \in BOOLEAN, spawn \in {"ok", "raise"}, rc \in {0, 1}, lines \in AdbOutputs :
          script' = [name |-> "install-termux.check_adb_connection",
                     adb |-> which,
                     run |-> IF spawn = "raise" THEN "raise"
                             ELSE IF rc = 0 THEN "zero" ELSE "nonzero",
                     lines |-> lines,
                     ret |-> install_check_adb_connection(which, spawn,
                                [returncode |-> rc, stdout |-> Printed(lines), stderr |-> <<>>])]
    /\ UNCHANGED <<utilVars, clientVars>>

NextAdb ==
    \/ ScrcpyCheckAdb
    \/ ScrcpyListDevices
    \/ SetupCheckAdb
    \/ InstallCheckAdb

SpecAdb == Init /\ [][NextAdb]_vars

\* the line has no character other than blanks
BlankLine(line) ==
    \A i \in 1..Len(line) : line[i] \in {SP, TAB}

\* the position of the header: the first line of the trimmed output
HeaderAt(lines) ==
    CHOOSE h \in 1..Len(lines) : ~BlankLine(lines[h]) /\ \A j \in 1..(h - 1) : BlankLine(lines[j])

\* the positions of the lines after the header that are not blank and
\* contain the marker
DevicePositions(lines) ==
    IF \A i \in 1..Len(lines) : BlankLine(lines[i]) THEN {}
    ELSE {i \in (HeaderAt(lines) + 1)..Len(lines) :
             ~BlankLine(lines[i]) /\ \E k \in 1..Len(lines[i]) :
                 lines[i][k] \in {"device", "devices", "device01"}}

\* the text of the line before its first tab
BeforeTab(line) ==
    LET tabs == {k \in 1..Len(line) : line[k] = TAB}
    IN IF tabs = {} THEN line
       ELSE SubSeq(line, 1, (CHOOSE k \in tabs : \A m \in tabs : k <= m) - 1)

\* the first fields of the lines at the positions ps, in the order of the output
RECURSIVE FieldsAt(_, _, _)
FieldsAt(lines, ps, i) ==
    IF i > Len(lines) THEN <<>>
    ELSE (IF i \in ps THEN <<BeforeTab(lines[i])>> ELSE <<>>) \o FieldsAt(lines, ps, i + 1)

\* "adb devices" was found, ran and was read by the caller
AdbRead ==
    /\ script.name \in {"scrcpy.check_adb_connection", "scrcpy.list_devices",
                        "setup-android-phone.check_adb_connection",
                        "install-termux.check_adb_connection"}
    /\ script.adb
    /\ IF script.name \in {"scrcpy.check_adb_connection", "scrcpy.list_devices"}
       THEN script.run = "zero"
       ELSE script.run # "raise"

\* C20: device enumeration skips the first line of the trimmed "adb devices"
\* output as the header and takes exactly the remaining non-blank lines that
\* contain 'device' as devices: each check_adb_connection returns True iff
\* there is such a line, and list_devices returns the first tab-separated
\* field of exactly those lines, in order; the header is never counted.
C20_DeviceEnumeration ==
    AdbRead =>
        IF script.name = "scrcpy.list_devices"
        THEN script.ret = FieldsAt(script.lines, DevicePositions(script.lines), 1)
        ELSE script.ret = (DevicePositions(script.lines) # {})

\* a header, an offline device and a connected device: one device is listed
C20_Witness ==
    /\ AdbRead
    /\ script.name = "scrcpy.list_devices"
    /\ script.lines = << <<"List", SP, "of", SP, "devices", SP, "attached">>,
                         <<"0123abc", TAB, "offline">>,
                         <<"emulator-5554", TAB, "device">> >>
    /\ script.ret = << <<"emulator-5554">> >>

-----------------------------------------------------------------------------
(* Best-effort dependency installation: setup_termux_environment of        *)
(* setup-android-phone.py and install_termux_dependencies of               *)
(* compile-box64-termux.py.                                                *)

\* run_adb_command(cmd): run_command(full_cmd, check=False)
run_adb_command(run) ==
    setup_run_command(run, FALSE)

\* the commands setup_termux_environment runs on the device, in order
setup_packages ==
    <<"git", "wget", "curl", "unzip", "tar", "python", "python-pip",
      "build-essential", "cmake", "pkg-config", "libc6-dev">>

setup_commands ==
    <<"termux-change-repo">> \o setup_packages

\* the commands among the i-th and later ones that are in failed, in order:
\* a loop that warns about a command that failed and goes on
RECURSIVE Warned(_, _, _)
Warned(commands, failed, i) ==
    IF i > Len(commands) THEN <<>>
    ELSE (IF commands[i] \in failed THEN <<commands[i]>> ELSE <<>>)
         \o Warned(commands, failed, i + 1)

\* setup_termux_environment; outcome[c] is how command c ends
setup_termux_environment(outcome) ==
    [ret |-> TRUE,
     attempted |-> setup_commands,
     warnings |-> Warned(setup_commands,
                         {c \in DOMAIN outcome : ~run_adb_command(outcome[c])}, 1),
     errors |-> <<>>]

\* TermuxBox64Builder._run_command: result.returncode == 0, False on an exception
builder_run_command(run) ==
    run = "zero"

termux_packages ==
    <<"git", "wget", "curl", "unzip", "tar", "python", "python-pip",
      "build-essential", "cmake", "pkg-config", "clang", "make",
      "libc6-dev", "libstdc++", "zlib", "libffi", "openssl">>

python_packages == <<"setuptools", "wheel">>

termux_commands ==
    <<"pkg update -y">> \o termux_packages \o python_packages

\* TermuxBox64Builder.install_termux_dependencies
install_termux_dependencies(outcome) ==
    IF ~builder_run_command(outcome["pkg update -y"])
    THEN [ret |-> FALSE,
          attempted |-> <<"pkg update -y">>,
          warnings |-> <<>>,
          errors |-> <<"Failed to update package lists">>]
    ELSE [ret |-> TRUE,
          attempted |-> termux_commands,
          warnings |-> Warned(termux_commands,
                              {c \in DOMAIN outcome : ~builder_run_command(outcome[c])}, 2),
          errors |-> <<>>]

\* the elements of a sequence
Range(seq) ==
    {seq[i] : i \in 1..Len(seq)}

\* how the commands end when those of failing end as how and the others succeed
Outcomes(commands, failing, how) ==
    [c \in Range(commands) |-> IF c \in failing THEN how ELSE "zero"]

\* the sets of at most MaxFailures commands
FailingSets(commands) ==
    {f \in SUBSET Range(commands) : Cardinality(f) <= MaxFailures}

\* setup-android-phone.py main, lines 429-432: the call and what main does with it
SetupTermuxEnvironment ==
    /\ script = NoScript
    /\ \E failing \in FailingSets(setup_commands), how \in {"nonzero", "raise"} :
          LET r == setup_termux_environment(Outcomes(setup_commands, failing, how)) IN
          script' = [name |-> "setup_termux_environment",
                     commands |-> setup_commands, failing |-> failing, how |-> how,
                     result |-> r,
                     aborted |-> FALSE]   \* "Warning: ... but continuing..."
    /\ UNCHANGED <<utilVars, clientVars>>

\* TermuxBox64Builder.build_box64, lines 456-459: the call and what it does with it
InstallTermuxDependencies ==
    /\ script = NoScript
    /\ \E failing \in FailingSets(termux_commands), how \in {"nonzero", "raise"} :
          LET r == install_termux_dependencies(Outcomes(termux_commands, failing, how)) IN
          script' = [name |-> "install_termux_dependencies",
                     commands |-> termux_commands, failing |-> failing, how |-> how,
                     result |-> r,
                     aborted |-> ~r.ret]   \* "Failed to install dependencies": return False
    /\ UNCHANGED <<utilVars, clientVars>>

NextDeps ==
    \/ SetupTermuxEnvironment
    \/ InstallTermuxDependencies

SpecDeps == Init /\ [][NextDeps]_vars

\* C18: dependency installation is best-effort in install_termux_dependencies
\* and in setup_termux_environment: when package-manager invocations fail,
\* nothing more than warnings is logged, every command is still attempted,
\* the function returns True and the sequence that called it is not aborted.
C18_DependenciesBestEffort ==
    script.name \in {"setup_termux_environment", "install_termux_dependencies"} =>
        /\ script.result.attempted = script.commands
        /\ script.result.errors = <<>>
        /\ script.result.ret
        /\ ~script.aborted

-----------------------------------------------------------------------------
(* setup-android-phone.py: main and the functions it calls.  script.pc is  *)
(* the call main makes next, script.ran the commands run so far with how   *)
(* each ended, script.exit the exit code once the script has ended.        *)

Step(name, rc) ==
    [step |-> name, rc |-> rc]

\* download_file: urlretrieve returns ("zero") or raises
download_file(download) ==
    download = "zero"

\* push_file_to_android of setup-android-phone.py: adb push through run_command(check=False)
adb_push_file_to_android(run) ==
    setup_run_command(run, FALSE)

\* install_termux_on_android: success and "com.termux" in result.stdout
install_termux_on_android(pm, listed) ==
    [ret |-> run_adb_command(pm) /\ listed,
     ran |-> <<Step("pm list packages", IF listed /\ pm # "raise" THEN "listed" ELSE pm)>>]

\* install_box64_on_android: the path of box64, or None; left are the local
\* temporary files of the call that exist when it returns
install_box64_on_android(download, push, extract) ==
    LET d == <<Step("download box64", download)>>
        p == d \o <<Step("push box64", push)>>
        x == p \o <<Step("extract box64", extract)>>
    IN IF ~download_file(download) THEN [ret |-> None, ran |-> d, left |-> {"box64.tar.gz"}]
       ELSE IF ~adb_push_file_to_android(push)
       THEN [ret |-> None, ran |-> p, left |-> {}]       \* os.unlink(tmp_path)
       ELSE IF ~run_adb_command(extract) THEN [ret |-> None, ran |-> x, left |-> {"box64.tar.gz"}]
       ELSE [ret |-> Some("box64"), ran |-> x, left |-> {}]   \* os.unlink(tmp_path)

\* install_wine_on_android: the Wine directory, or None
install_wine_on_android(clone, configure, build, install) ==
    LET c == <<Step("clone wine", clone)>>
        f == c \o <<Step("configure wine", configure)>>
        b == f \o <<Step("build wine", build)>>
        i == b \o <<Step("install wine", install)>>
    IN IF ~run_adb_command(clone) THEN [ret |-> None, ran |-> c]
       ELSE IF ~run_adb_command(configure) THEN [ret |-> None, ran |-> f]
       ELSE IF ~run_adb_command(build) THEN [ret |-> None, ran |-> b]
       ELSE IF ~run_adb_command(install) THEN [ret |-> None, ran |-> i]
       ELSE [ret |-> Some("wine"), ran |-> i]

\* setup_wine_prefix_on_android
setup_wine_prefix_on_android(init) ==
    [ret |-> run_adb_command(init), ran |-> <<Step("wineboot --init", init)>>]

\* install_winetricks_on_android
install_winetricks_on_android(download, push) ==
    LET d == <<Step("download winetricks", download)>>
        p == d \o <<Step("push winetricks", push)>>
    IN IF ~download_file(download) THEN [ret |-> FALSE, ran |-> d, left |-> {"winetricks"}]
       ELSE IF ~adb_push_file_to_android(push) THEN [ret |-> FALSE, ran |-> p, left |-> {}]
       ELSE [ret |-> TRUE, ran |-> p, left |-> {}]

\* create_launch_script_on_android: the path of the script, or None
create_launch_script_on_android(push) ==
    [ret |-> IF adb_push_file_to_android(push) THEN Some("launch-wine.sh") ELSE None,
     ran |-> <<Step("push launch-wine.sh", push)>>,
     left |-> {}]   \* os.unlink(tmp_path) after a failed and after a successful push

\* create_android_app_launcher: the path of the launcher, or None
create_android_app_launcher(push) ==
    [ret |-> IF adb_push_file_to_android(push) THEN Some("start-wine.sh") ELSE None,
     ran |-> <<Step("push start-wine.sh", push)>>,
     left |-> {}]   \* os.unlink(tmp_path) after a failed and after a successful push

\* main "which box64" / "which wine": success and result.stdout.strip()
find_existing(which, stdout) ==
    run_adb_command(which) /\ Strip(stdout) # <<>>

\* main goes on to its next call, having run the commands ran
Goto(pc, ran) ==
    script' = [script EXCEPT !.pc = pc, !.ran = script.ran \o ran]

\* sys.exit(code), or the end of main for code 0
Exit(code, ran) ==
    script' = [script EXCEPT !.pc = "exit", !.ran = script.ran \o ran, !.exit = Some(code)]

\* Goto and Exit after a function that made a temporary file
GotoAfter(pc, r) ==
    script' = [script EXCEPT !.pc = pc, !.ran = script.ran \o r.ran,
                             !.tmp = script.tmp \cup r.left]

ExitAfter(code, r) ==
    script' = [script EXCEPT !.pc = "exit", !.ran = script.ran \o r.ran,
                             !.tmp = script.tmp \cup r.left, !.exit = Some(code)]

At(pc) ==
    script.name = "setup-android-phone" /\ script.pc = pc

\* args = parser.parse_args()
SetupStart ==
    /\ script = NoScript
    /\ \E skip_termux_setup \in BOOLEAN, skip_box64 \in BOOLEAN, skip_wine \in BOOLEAN :
          script' = [name |-> "setup-android-phone",
                     args |-> [skip_termux_setup |-> skip_termux_setup,
                               skip_box64 |-> skip_box64, skip_wine |-> skip_wine],
                     pc |-> "check_adb", ran |-> <<>>, tmp |-> {}, exit |-> None]
    /\ UNCHANGED <<utilVars, clientVars>>

\* lines 421-423
MainCheckAdb ==
    /\ At("check_adb")
    /\ \E which \in BOOLEAN, run \in AdbOutcomes, lines \in SeqsUpTo(AdbLines, 2) :
          IF setup_check_adb_connection(which, run, Printed(lines))
          THEN Goto("check_termux", <<Step("adb devices", "found")>>)
          ELSE Exit(1, <<Step("adb devices", "none")>>)
    /\ UNCHANGED <<utilVars, clientVars>>

\* lines 425-427
MainCheckTermux ==
    /\ At("check_termux")
    /\ \E pm \in AdbOutcomes, listed \in BOOLEAN :
          LET r == install_termux_on_android(pm, listed) IN
          IF r.ret THEN Goto("termux_env", r.ran) ELSE Exit(1, r.ran)
    /\ UNCHANGED <<utilVars, clientVars>>

\* lines 429-432
MainTermuxEnv ==
    /\ At("termux_env")
    /\ IF script.args.skip_termux_setup THEN Goto("box64", <<>>)
       ELSE \E how \in AdbOutcomes :
               LET r == setup_termux_environment([c \in Range(setup_commands) |-> how]) IN
               \* a False result is a warning: main continues either way
               IF r.ret THEN Goto("box64", <<Step("termux setup", how)>>)
               ELSE Goto("box64", <<Step("termux setup", "warning")>>)
    /\ UNCHANGED <<utilVars, clientVars>>

\* lines 434-449
MainBox64 ==
    /\ At("box64")
    /\ IF ~script.args.skip_box64
       THEN \E download \in {"zero", "raise"}, push \in AdbOutcomes, extract \in AdbOutcomes :
               LET r == install_box64_on_android(download, push, extract) IN
               IF r.ret = None THEN ExitAfter(1, r) ELSE GotoAfter("wine", r)
       ELSE \E which \in AdbOutcomes, stdout \in {<<>>, <<"/usr/bin/box64", NL>>} :
               IF find_existing(which, stdout)
               THEN Goto("wine", <<Step("which box64", "found")>>)
               ELSE Exit(1, <<Step("which box64", "none")>>)
    /\ UNCHANGED <<utilVars, clientVars>>

\* lines 451-467
MainWine ==
    /\ At("wine")
    /\ IF ~script.args.skip_wine
       THEN \E clone \in AdbOutcomes, configure \in AdbOutcomes,
               build \in AdbOutcomes, install \in AdbOutcomes :
               LET r == install_wine_on_android(clone, configure, build, install) IN
               IF r.ret = None THEN Exit(1, r.ran) ELSE Goto("prefix", r.ran)
       ELSE \E which \in AdbOutcomes, stdout \in {<<>>, <<"/usr/bin/wine", NL>>} :
               IF find_existing(which, stdout)
               THEN Goto("prefix", <<Step("which wine", "found")>>)
               ELSE Exit(1, <<Step("which wine", "none")>>)
    /\ UNCHANGED <<utilVars, clientVars>>

\* lines 469-472
MainPrefix ==
    /\ At("prefix")
    /\ \E init \in AdbOutcomes :
          LET r == setup_wine_prefix_on_android(init) IN
          IF r.ret THEN Goto("winetricks", r.ran) ELSE Exit(1, r.ran)
    /\ UNCHANGED <<utilVars, clientVars>>

\* lines 474-476: a failure is a warning
MainWinetricks ==
    /\ At("winetricks")
    /\ \E download \in {"zero", "raise"}, push \in AdbOutcomes :
          GotoAfter("launch_script", install_winetricks_on_android(download, push))
    /\ UNCHANGED <<utilVars, clientVars>>

\* lines 478-482
MainLaunchScript ==
    /\ At("launch_script")
    /\ \E push \in AdbOutcomes :
          LET r == create_launch_script_on_android(push) IN
          IF r.ret = None THEN ExitAfter(1, r) ELSE GotoAfter("launcher", r)
    /\ UNCHANGED <<utilVars, clientVars>>

\* lines 484-510: after the launcher main prints the summary and ends
MainLauncher ==
    /\ At("launcher")
    /\ \E push \in AdbOutcomes :
          LET r == create_android_app_launcher(push) IN
          IF r.ret = None THEN ExitAfter(1, r) ELSE ExitAfter(0, r)
    /\ UNCHANGED <<utilVars, clientVars>>

NextSetup ==
    \/ SetupStart
    \/ MainCheckAdb
    \/ MainCheckTermux
    \/ MainTermuxEnv
    \/ MainBox64
    \/ MainWine
    \/ MainPrefix
    \/ MainWinetricks
    \/ MainLaunchScript
    \/ MainLauncher

SpecSetup == Init /\ [][NextSetup]_vars

\* the device-side steps the setup cannot do without
RequiredDeviceSteps ==
    {"extract box64", "clone wine", "configure wine", "build wine", "install wine",
     "wineboot --init"}

\* C15: in setup-android-phone.py main, when a required device-side step
\* (box64 extraction, Wine clone, configure, build, install, prefix
\* initialization) exits with a non-zero status, it is the last step run and
\* the script exits with code 1; the script exits 0 only if every required
\* step it ran succeeded.
C15_RequiredStepFailureStops ==
    script.name = "setup-android-phone" =>
        /\ \A i \in 1..Len(script.ran) :
              (script.ran[i].step \in RequiredDeviceSteps /\ script.ran[i].rc = "nonzero")
                  => (i = Len(script.ran) /\ script.exit = Some(1))
        /\ script.exit = Some(0) =>
              \A i \in 1..Len(script.ran) :
                  script.ran[i].step \in RequiredDeviceSteps => script.ran[i].rc = "zero"

-----------------------------------------------------------------------------
(* termux-ssh-login.py: main and the TermuxSSHClient methods it calls.     *)

\* check_ssh_client; ssh is how "ssh -V" ends: an exit status or FileNotFoundError
check_ssh_client(ssh) ==
    ssh = "zero"

\* connect_interactive with no handler for KeyboardInterrupt
connect_interactive_uncaught(session) ==
    IF session \in {"zero", "nonzero"} THEN [ret |-> TRUE, raised |-> "none"]
    ELSE IF session = "keyboard" THEN [ret |-> FALSE, raised |-> "KeyboardInterrupt"]
    ELSE [ret |-> FALSE, raised |-> "none"]

\* connect_interactive; session is how subprocess.run(ssh_cmd) ends: ssh exits
\* with a status, the operator interrupts it, or it raises an exception
connect_interactive(session) ==
    IF session \in {"zero", "nonzero"} THEN [ret |-> TRUE, raised |-> "none"]
    ELSE IF session = "keyboard" THEN [ret |-> TRUE, raised |-> "none"]
    ELSE [ret |-> FALSE, raised |-> "none"]

\* execute_command; run is how subprocess.run(ssh_cmd, timeout=30) ends.
\* KeyboardInterrupt is no Exception and leaves the method
execute_command(run) ==
    IF run = "zero" THEN [ret |-> TRUE, raised |-> "none"]
    ELSE IF run \in {"nonzero", "timeout", "raise"} THEN [ret |-> FALSE, raised |-> "none"]
    ELSE [ret |-> FALSE, raised |-> "KeyboardInterrupt"]

\* copy_public_key; probe is how "ssh-copy-id -V" ends, key whether
\* ~/.ssh/id_rsa.pub exists, copy how ssh-copy-id ends
copy_public_key(probe, key, copy) ==
    IF probe \in {"other", "notfound"} THEN FALSE
    ELSE IF ~key THEN FALSE
    ELSE copy = "zero"

\* one boolean per option of the command line
LoginArgs ==
    [setup : BOOLEAN, copy_key : BOOLEAN, info : BOOLEAN, command : BOOLEAN]

\* the script has ended: the action main reached, how that action's command
\* ended, what the method returned, and the value main returned
Ended(args, reached, outcome, ok, exit, raised) ==
    [name |-> "termux-ssh-login", args |-> args, reached |-> reached,
     outcome |-> outcome, ok |-> ok, exit |-> exit, raised |-> raised]

\* what main does once read_config returned True
AfterConfig(args) ==
    IF args.copy_key
    THEN \E probe \in {"exit0", "exit1", "other", "notfound"}, key \in BOOLEAN,
            copy \in {"zero", "nonzero", "timeout", "raise"} :
            LET ok == copy_public_key(probe, key, copy) IN
            script' = Ended(args, "copy_key",
                            IF probe \in {"other", "notfound"} THEN "no ssh-copy-id"
                            ELSE IF ~key THEN "no key" ELSE copy,
                            ok, IF ok THEN Some(0) ELSE Some(1), "none")
    ELSE IF args.info
    THEN script' = Ended(args, "info", "shown", TRUE, Some(0), "none")
    ELSE \E ssh \in {"zero", "nonzero", "notfound"} :
            IF ~check_ssh_client(ssh)
            THEN script' = Ended(args, "check_ssh", ssh, FALSE, Some(1), "none")
            ELSE IF args.command
            THEN \E run \in {"zero", "nonzero", "timeout", "raise", "keyboard"} :
                    LET r == execute_command(run) IN
                    script' = Ended(args, "command", run, r.ret,
                                    IF r.raised # "none" THEN None
                                    ELSE IF r.ret THEN Some(0) ELSE Some(1),
                                    r.raised)
            ELSE \E session \in {"zero", "nonzero", "keyboard", "raise"} :
                    LET r == connect_interactive(session) IN
                    \* client.connect_interactive(); return 0
                    script' = Ended(args, "interactive", session, r.ret,
                                    IF r.raised # "none" THEN None ELSE Some(0),
                                    r.raised)

\* main, on the configuration file clientFile
LoginMain ==
    /\ script = NoScript
    /\ \E args \in LoginArgs :
          IF args.setup
          THEN /\ script' = Ended(args, "setup", "shown", TRUE, Some(0), "none")
               /\ UNCHANGED clientVars
          ELSE \E failAt \in FailPoints(clientFile) :
                  LET r == ReadConfigCall(EmptyConfig, clientFile, failAt) IN
                  /\ config' = r.config
                  /\ clientLog' = [ret |-> r.ret, missing |-> r.missing, why |-> r.why]
                  /\ clientCalls' = 1
                  /\ UNCHANGED clientFile
                  /\ IF ~r.ret
                     THEN script' = Ended(args, "read_config", r.why, FALSE, Some(1), "none")
                     ELSE AfterConfig(args)
    /\ UNCHANGED utilVars

LoginInit ==
    /\ UtilInit
    /\ clientFile \in {None} \cup {Some(f) : f \in SeqsUpTo(ClientLines, MaxLines)}
    /\ config = EmptyConfig
    /\ clientLog = [ret |-> FALSE, missing |-> <<>>, why |-> "new"]
    /\ clientCalls = 0
    /\ DriverIdle

SpecLogin == LoginInit /\ [][LoginMain]_vars

\* the action the command line asked for has failed
RequestedActionFailed ==
    \/ script.reached = "read_config"
    \/ script.reached = "check_ssh"
    \/ script.reached = "copy_key" /\ script.outcome # "zero"
    \/ script.reached = "command" /\ script.outcome \in {"nonzero", "timeout", "raise"}
    \/ script.reached = "interactive" /\ script.outcome = "raise"

\* C16: termux-ssh-login.py main returns 1 whenever the requested action
\* fails (configuration not loaded, ssh client missing, key copy failed,
\* --command failed or timed out, interactive connection failed to run) and
\* returns 0 only when the requested action did not fail.
C16_ExitCodeReportsFailure ==
    (script.name = "termux-ssh-login" /\ script.raised = "none") =>
        /\ RequestedActionFailed => script.exit = Some(1)
        /\ script.exit = Some(0) => ~RequestedActionFailed

\* C17: a KeyboardInterrupt during the interactive session is a normal
\* termination: connect_interactive returns True and main returns 0, with
\* no exception leaving main.
C17_InterruptIsNormalTermination ==
    (script.name = "termux-ssh-login" /\ script.reached = "interactive"
       /\ script.outcome = "keyboard") =>
        /\ script.ok
        /\ script.exit = Some(0)
        /\ script.raised = "none"

\* the operator interrupts the session of a client whose configuration loaded
C17_Witness ==
    /\ script.name = "termux-ssh-login"
    /\ script.reached = "interactive"
    /\ script.outcome = "keyboard"
    /\ clientLog.ret
    /\ script.exit = Some(0)

-----------------------------------------------------------------------------
(* cross-compile-box64-android-sdk.py: the SDK and NDK the build uses.     *)
(* A path is the sequence of its components.                               *)

\* the places detect_android_sdk looks at, in order (the environment and the
\* fixed locations; a variable that is not set is a place that does not exist)
sdk_paths ==
    << <<"$ANDROID_SDK_ROOT">>, <<"~/Android/Sdk">> >>

\* the places detect_android_ndk looks at for the SDK sdk, in order
all_ndk_paths(sdk) ==
    << Append(sdk, "ndk"), Append(sdk, "ndk-bundle"), <<"$ANDROID_NDK_ROOT">> >>

\* detect_android_ndk on a builder b; valid are the places that exist and
\* pass _is_valid_ndk
detect_android_ndk(b, valid) ==
    IF b.android_sdk = None THEN [ret |-> FALSE, android_sdk |-> b.android_sdk,
                                  android_ndk |-> b.android_ndk]
    ELSE LET places == all_ndk_paths(b.android_sdk[1])
             found == {i \in 1..Len(places) : places[i] \in valid}
         IN IF found # {}
            THEN [ret |-> TRUE, android_sdk |-> b.android_sdk,
                  android_ndk |-> Some(places[CHOOSE i \in found : \A j \in found : i <= j])]
            ELSE [ret |-> FALSE, android_sdk |-> b.android_sdk,
                  android_ndk |-> b.android_ndk]

\* detect_android_sdk on a builder b; exist are the SDK places that exist
detect_android_sdk(b, exist, valid) ==
    LET found == {i \in 1..Len(sdk_paths) : sdk_paths[i] \in exist}
        sdk == IF found # {}
               THEN Some(sdk_paths[CHOOSE i \in found : \A j \in found : i <= j])
               ELSE b.android_sdk
    IN IF sdk = None
       THEN [ret |-> FALSE, android_sdk |-> sdk, android_ndk |-> b.android_ndk]
       ELSE detect_android_ndk([android_sdk |-> sdk, android_ndk |-> b.android_ndk], valid)

\* the paths an operator gives with --android-sdk and --android-ndk
UserSdk == <<"/user/sdk">>
UserNdk == <<"/user/ndk">>

\* the places an NDK can be found at
NdkPlaces ==
    UNION {Range(all_ndk_paths(sdk)) : sdk \in Range(sdk_paths) \cup {UserSdk}}

\* main: the builder with the options applied, then build_box64 up to the
\* detection it starts with
CrossCompileMain ==
    /\ script = NoScript
    /\ \E android_sdk \in {None, Some(UserSdk)}, android_ndk \in {None, Some(UserNdk)},
          exist \in SUBSET Range(sdk_paths), valid \in SUBSET NdkPlaces :
          LET r == detect_android_sdk([android_sdk |-> android_sdk,
                                       android_ndk |-> android_ndk], exist, valid)
          IN script' = [name |-> "cross-compile-box64-android-sdk",
                        args |-> [android_sdk |-> android_sdk, android_ndk |-> android_ndk],
                        exist |-> exist, valid |-> valid,
                        detected |-> r.ret,
                        android_sdk |-> r.android_sdk, android_ndk |-> r.android_ndk,
                        exit |-> IF r.ret THEN None ELSE Some(1)]
    /\ UNCHANGED <<utilVars, clientVars>>

SpecCross == Init /\ [][CrossCompileMain]_vars

\* C19: when --android-sdk (--android-ndk) is given, build_box64 goes on
\* with exactly that SDK (NDK); auto-detection chooses a path only for an
\* option that is not given; and with an SDK at hand a given NDK is never
\* rejected because auto-detection found none.
C19_SpecifiedPathsUsed ==
    script.name = "cross-compile-box64-android-sdk" =>
        /\ (script.detected /\ script.args.android_sdk # None)
              => script.android_sdk = script.args.android_sdk
        /\ (script.detected /\ script.args.android_ndk # None)
              => script.android_ndk = script.args.android_ndk
        /\ (script.args.android_ndk # None /\ script.android_sdk # None)
              => script.detected

-----------------------------------------------------------------------------
(* scrcpy.py: ScrcpyRunner, the SDK and the adb it selects, and the launch *)
(* of scrcpy.                                                              *)

\* the places ScrcpyRunner._detect_android_sdk looks at, in order
scrcpy_sdk_paths ==
    << <<"$ANDROID_SDK_ROOT">>, <<"~/Android/Sdk">> >>

\* ScrcpyRunner._detect_android_sdk; given is --android-sdk, exist the
\* directories that exist
scrcpy_detect_android_sdk(given, exist) ==
    IF given # None /\ given[1] \in exist THEN given
    ELSE LET found == {i \in 1..Len(scrcpy_sdk_paths) : scrcpy_sdk_paths[i] \in exist}
         IN IF found # {}
            THEN Some(scrcpy_sdk_paths[CHOOSE i \in found : \A j \in found : i <= j])
            ELSE given

\* adb_paths of _detect_adb for the SDK sdk
adb_paths(sdk) ==
    << sdk \o <<"platform-tools", "adb">>, sdk \o <<"tools", "adb">> >>

\* the adb on the PATH of the system
SystemAdb == <<"/usr/bin", "adb">>

\* _detect_adb falling back to the adb of the system
detect_adb_or_system(android_sdk, files) ==
    IF android_sdk = None THEN Some(SystemAdb)
    ELSE LET places == adb_paths(android_sdk[1])
             found == {i \in 1..Len(places) : places[i] \in files}
         IN IF found # {} THEN Some(places[CHOOSE i \in found : \A j \in found : i <= j])
            ELSE Some(SystemAdb)

\* ScrcpyRunner._detect_adb: self.adb_path; files are the files that exist
detect_adb(android_sdk, files) ==
    IF android_sdk = None THEN None
    ELSE LET places == adb_paths(android_sdk[1])
             found == {i \in 1..Len(places) : places[i] \in files}
         IN IF found # {} THEN Some(places[CHOOSE i \in found : \A j \in found : i <= j])
            ELSE None

\* ScrcpyRunner.__init__
ScrcpyRunner(given, exist, files, scrcpy) ==
    LET sdk == scrcpy_detect_android_sdk(given, exist)
    IN [android_sdk |-> sdk, adb_path |-> detect_adb(sdk, files), scrcpy_path |-> scrcpy]

\* run_scrcpy up to the Popen call: whether scrcpy is launched and the ADB
\* variable of its environment
launch_scrcpy(runner, run, stdout) ==
    IF ~runner.scrcpy_path THEN [launched |-> FALSE, env_adb |-> None]
    ELSE IF runner.adb_path = None THEN [launched |-> FALSE, env_adb |-> None]
    ELSE IF ~check_adb_connection(runner.adb_path # None, run, stdout)
    THEN [launched |-> FALSE, env_adb |-> None]
    ELSE [launched |-> TRUE, env_adb |-> runner.adb_path]

\* the directories an SDK can be at
SdkDirs == Range(scrcpy_sdk_paths) \cup {UserSdk}

\* the files that can exist when the directories exist do
AdbFiles(exist) ==
    SUBSET (UNION {Range(adb_paths(sdk)) : sdk \in exist})

\* main without --list-devices: ScrcpyRunner(args.android_sdk), run_scrcpy
ScrcpyMain ==
    /\ script = NoScript
    /\ \E given \in {None, Some(UserSdk)}, exist \in SUBSET SdkDirs, scrcpy \in BOOLEAN,
          run \in AdbRuns, lines \in SeqsUpTo(AdbLines, 2) :
          \E files \in AdbFiles(exist) :
             LET runner == ScrcpyRunner(given, exist, files \cup {SystemAdb}, scrcpy)
                 l == launch_scrcpy(runner, run, Printed(lines))
             IN script' = [name |-> "scrcpy", given |-> given, exist |-> exist,
                           files |-> files, run |-> run, lines |-> lines,
                           runner |-> runner,
                           launched |-> l.launched, env_adb |-> l.env_adb]
    /\ UNCHANGED <<utilVars, clientVars>>

SpecScrcpy == Init /\ [][ScrcpyMain]_vars

\* C21: scrcpy is launched only if an adb executable was found inside the
\* selected Android SDK and check_adb_connection found at least one device,
\* and in every launch the ADB variable passed to scrcpy is that adb.
C21_SdkAdbUsed ==
    (script.name = "scrcpy" /\ script.launched) =>
        /\ script.runner.android_sdk # None
        /\ script.runner.android_sdk[1] \in script.exist
        /\ \E adb \in script.files :
              /\ SubSeq(adb, 1, Len(script.runner.android_sdk[1])) = script.runner.android_sdk[1]
              /\ script.env_adb = Some(adb)
        /\ script.run = "zero"
        /\ DevicePositions(script.lines) # {}

\* scrcpy launched with the adb of the SDK given on the command line
C21_Witness ==
    /\ script.name = "scrcpy"
    /\ script.launched
    /\ script.given = Some(UserSdk)
    /\ script.env_adb = Some(UserSdk \o <<"platform-tools", "adb">>)

\* C22: every local temporary file made by install_box64_on_android,
\* install_winetricks_on_android, create_launch_script_on_android and
\* create_android_app_launcher is deleted when the function returns, on
\* every return path: no temporary file exists between the calls of main.
C22_TemporaryFilesDeleted ==
    script.name = "setup-android-phone" => script.tmp = {}

-----------------------------------------------------------------------------
(* The box64 builders: TermuxBox64Builder (compile-box64-termux.py) and    *)
(* AndroidBox64Builder (cross-compile-box64-android-sdk.py).  A command is *)
(* the sequence of its words.                                              *)

\* TermuxBox64Builder.platform_configs: the cmake_args of each platform
platform_configs ==
    [p \in {"snapdragon-845", "snapdragon-855", "snapdragon-865", "snapdragon-888",
            "snapdragon-8gen1", "snapdragon-8gen2", "snapdragon-8gen3",
            "generic-arm64", "termux", "android"} |->
        CASE p = "snapdragon-845" -> <<"-DSD845=ON", "-DCMAKE_BUILD_TYPE=RelWithDebInfo">>
          [] p = "snapdragon-855" -> <<"-DSD855=ON", "-DCMAKE_BUILD_TYPE=RelWithDebInfo">>
          [] p = "snapdragon-865" -> <<"-DSD865=ON", "-DCMAKE_BUILD_TYPE=RelWithDebInfo">>
          [] p = "snapdragon-888" -> <<"-DSD888=ON", "-DCMAKE_BUILD_TYPE=RelWithDebInfo">>
          [] p = "snapdragon-8gen1" -> <<"-DSD8G1=ON", "-DCMAKE_BUILD_TYPE=RelWithDebInfo">>
          [] p = "snapdragon-8gen2" -> <<"-DSD8G2=ON", "-DCMAKE_BUILD_TYPE=RelWithDebInfo">>
          [] p = "snapdragon-8gen3" -> <<"-DSD8G3=ON", "-DCMAKE_BUILD_TYPE=RelWithDebInfo">>
          [] p = "generic-arm64" -> <<"-DARM64=ON", "-DCMAKE_BUILD_TYPE=RelWithDebInfo">>
          [] p = "termux" -> <<"-DTERMUX=ON", "-DCMAKE_C_COMPILER=clang",
                               "-DCMAKE_BUILD_TYPE=RelWithDebInfo">>
          [] p = "android" -> <<"-DANDROID=ON", "-DBAD_SIGNAL=ON",
                                "-DCMAKE_BUILD_TYPE=RelWithDebInfo">>]

\* "Add Termux-specific optimizations"
termux_optimizations ==
    <<"-DCMAKE_BUILD_TYPE=RelWithDebInfo", "-DCMAKE_INSTALL_PREFIX=<install_prefix>",
      "-DUSE_CCACHE=OFF", "-DNOALIGN=ON">>

\* AndroidBox64Builder.android_archs
android_archs == {"arm64-v8a", "armeabi-v7a", "x86_64", "x86"}

\* str.lower() of a word of /proc/cpuinfo or of the device model
Lower(word) ==
    CASE word = "Qualcomm" -> "qualcomm"
      [] word = "Snapdragon" -> "snapdragon"
      [] word = "8 Gen 1" -> "8 gen 1"
      [] word = "8 Gen 2" -> "8 gen 2"
      [] word = "8 Gen 3" -> "8 gen 3"
      [] OTHER -> word

\* needle in text, for a text given by its words
InText(needle, text) ==
    \E i \in 1..Len(text) : text[i] = needle

\* needle in text.lower()
InLower(needle, text) ==
    \E i \in 1..Len(text) : Lower(text[i]) = needle

\* _is_snapdragon; cpuinfo and model are None when the file cannot be read
is_snapdragon(cpuinfo, model) ==
    IF cpuinfo # None
    THEN InLower("qualcomm", cpuinfo[1]) \/ InLower("snapdragon", cpuinfo[1])
    ELSE IF model # None
    THEN InLower("snapdragon", model[1]) \/ InLower("qualcomm", model[1])
    ELSE FALSE

\* _get_snapdragon_model
get_snapdragon_model(cpuinfo) ==
    IF cpuinfo = None THEN None
    ELSE IF InText("845", cpuinfo[1]) THEN Some("snapdragon-845")
    ELSE IF InText("855", cpuinfo[1]) THEN Some("snapdragon-855")
    ELSE IF InText("865", cpuinfo[1]) THEN Some("snapdragon-865")
    ELSE IF InText("888", cpuinfo[1]) THEN Some("snapdragon-888")
    ELSE IF InLower("8 gen 1", cpuinfo[1]) THEN Some("snapdragon-8gen1")
    ELSE IF InLower("8 gen 2", cpuinfo[1]) THEN Some("snapdragon-8gen2")
    ELSE IF InLower("8 gen 3", cpuinfo[1]) THEN Some("snapdragon-8gen3")
    ELSE None

\* detect_android_platform falling back to the name of the architecture
detect_android_platform_by_arch(cpuinfo, model, host_arch) ==
    IF is_snapdragon(cpuinfo, model) /\ get_snapdragon_model(cpuinfo) # None
    THEN get_snapdragon_model(cpuinfo)[1]
    ELSE host_arch

\* detect_android_platform
detect_android_platform(cpuinfo, model, host_arch) ==
    IF is_snapdragon(cpuinfo, model) /\ get_snapdragon_model(cpuinfo) # None
    THEN get_snapdragon_model(cpuinfo)[1]
    ELSE IF host_arch \in {"aarch64", "arm64"} THEN "generic-arm64"
    ELSE "termux"

\* TermuxBox64Builder.configure_build on a builder whose cmake_args are args:
\* the result, the cmake_args afterwards and the command run (None: none)
termux_configure_build(args, platform, custom_args, run) ==
    IF platform \notin DOMAIN platform_configs
    THEN [ret |-> FALSE, cmake_args |-> args, command |-> None]
    ELSE LET after == args \o platform_configs[platform] \o termux_optimizations \o custom_args
         IN [ret |-> builder_run_command(run), cmake_args |-> after,
             command |-> Some(<<"cmake", "<source_dir>">> \o after)]

\* AndroidBox64Builder.configure_build
android_configure_build(args, arch, custom_args, run) ==
    IF arch \notin android_archs
    THEN [ret |-> FALSE, cmake_args |-> args, command |-> None]
    ELSE LET after == args \o custom_args
         IN [ret |-> builder_run_command(run), cmake_args |-> after,
             command |-> Some(<<"cmake", "<source_dir>">> \o after)]

\* the build command of a builder: make_cmd
make_cmd(kind, jobs) ==
    IF kind = "termux" THEN <<"make", jobs>> ELSE <<"cmake", "--build", ".", jobs>>

\* build of either builder on a builder whose make_args are args
builder_build(kind, args, jobs, run) ==
    LET after == args \o make_cmd(kind, jobs)
    IN [ret |-> builder_run_command(run), make_args |-> after, command |-> Some(after)]

\* AndroidBox64Builder.setup_toolchain: the result and the cmake_args afterwards
setup_toolchain(args, arch, toolchain_dir_exists) ==
    IF arch \notin android_archs \/ ~toolchain_dir_exists
    THEN [ret |-> FALSE, cmake_args |-> args]
    ELSE [ret |-> TRUE,
          cmake_args |-> args
              \o <<"-DCMAKE_TOOLCHAIN_FILE=<ndk>/build/cmake/android.toolchain.cmake",
                   "-DANDROID_ABI=<abi>", "-DANDROID_PLATFORM=android-24",
                   "-DANDROID_STL=c++_shared", "-DANDROID_TOOLCHAIN=clang",
                   IF arch \in {"arm64-v8a", "armeabi-v7a"}
                   THEN "-DANDROID_ARM_NEON=ON" ELSE "",
                   "-DCMAKE_ANDROID_ARCH_ABI=<abi>", "-DCMAKE_ANDROID_NDK=<ndk>",
                   "-DCMAKE_SYSTEM_NAME=Android", "-DCMAKE_SYSTEM_VERSION=24",
                   "-DCMAKE_ANDROID_STL_TYPE=c++_shared">>
              \o (CASE arch = "arm64-v8a" ->
                        <<"-DANDROID=ON", "-DARM64=ON", "-DCMAKE_BUILD_TYPE=RelWithDebInfo">>
                    [] arch = "armeabi-v7a" ->
                        <<"-DANDROID=ON", "-DARM64=OFF", "-DCMAKE_BUILD_TYPE=RelWithDebInfo">>
                    [] OTHER -> <<"-DANDROID=ON", "-DCMAKE_BUILD_TYPE=RelWithDebInfo">>)
              \o <<"-DANDROID=ON", "-DBAD_SIGNAL=ON", "-DNOALIGN=ON", "-DUSE_CCACHE=OFF">>]

\* words of /proc/cpuinfo and of the device model that the detection looks at
CpuWords ==
    {"Qualcomm", "Snapdragon", "Exynos", "845", "855", "865", "888",
     "8 Gen 1", "8 Gen 2", "8 Gen 3"}

\* the builder objects: cmake_args and make_args start empty
Builder(kind, platform) ==
    [name |-> "builder", kind |-> kind, platform |-> platform, toolchain |-> FALSE,
     cmake_args |-> <<>>, make_args |-> <<>>, calls |-> 0, call |-> [op |-> "new"]]

\* a TermuxBox64Builder whose platform is auto-detected, as build_box64 does
NewTermuxBuilder ==
    /\ script = NoScript
    /\ \E cpuinfo \in {None} \cup {Some(t) : t \in SeqsUpTo(CpuWords, 2)},
          model \in {None, Some(<<"Snapdragon">>), Some(<<"Exynos">>)},
          host_arch \in {"aarch64", "arm64", "armv7l", "x86_64"} :
          script' = Builder("termux", detect_android_platform(cpuinfo, model, host_arch))
    /\ UNCHANGED <<utilVars, clientVars>>

\* an AndroidBox64Builder for a requested architecture
NewAndroidBuilder ==
    /\ script = NoScript
    /\ \E arch \in {"arm64-v8a", "x86_64", "mips"} :
          script' = Builder("android", arch)
    /\ UNCHANGED <<utilVars, clientVars>>

BuilderReady(kind) ==
    /\ script.name = "builder"
    /\ script.kind = kind
    /\ script.calls < MaxCalls

\* a call of AndroidBox64Builder.setup_toolchain
SetupToolchain ==
    /\ BuilderReady("android")
    /\ \E exists \in BOOLEAN :
          LET r == setup_toolchain(script.cmake_args, script.platform, exists)
          IN script' = [script EXCEPT !.cmake_args = r.cmake_args,
                           !.toolchain = @ \/ r.ret, !.calls = @ + 1,
                           !.call = [op |-> "setup_toolchain", ret |-> r.ret,
                                     before |-> script.cmake_args]]
    /\ UNCHANGED <<utilVars, clientVars>>

\* a call of configure_build: with the builder's platform, with another
\* platform the user names, or with a name that is no platform
ConfigureBuild ==
    /\ \/ BuilderReady("termux")
       \/ BuilderReady("android")
    /\ \E platform \in {script.platform, "android", "arm64"},
          custom_args \in {<<>>, <<"-DBOX32=ON">>}, run \in {"zero", "nonzero"} :
          LET r == IF script.kind = "termux"
                   THEN termux_configure_build(script.cmake_args, platform, custom_args, run)
                   ELSE android_configure_build(script.cmake_args, platform, custom_args, run)
          IN script' = [script EXCEPT !.cmake_args = r.cmake_args, !.calls = @ + 1,
                           !.call = [op |-> "configure_build", platform |-> platform,
                                     custom_args |-> custom_args, ret |-> r.ret,
                                     command |-> r.command,
                                     before |-> script.cmake_args]]
    /\ UNCHANGED <<utilVars, clientVars>>

\* a call of build
Build ==
    /\ \/ BuilderReady("termux")
       \/ BuilderReady("android")
    /\ \E jobs \in {"-j2", "-j4"}, run \in {"zero", "nonzero"} :
          LET r == builder_build(script.kind, script.make_args, jobs, run)
          IN script' = [script EXCEPT !.make_args = r.make_args, !.calls = @ + 1,
                           !.call = [op |-> "build", jobs |-> jobs, ret |-> r.ret,
                                     command |-> r.command]]
    /\ UNCHANGED <<utilVars, clientVars>>

NextBuilder ==
    \/ NewTermuxBuilder
    \/ NewAndroidBuilder
    \/ SetupToolchain
    \/ ConfigureBuild
    \/ Build

SpecBuilder == Init /\ [][NextBuilder]_vars

\* number of occurrences of a word in a command
Count(word, command) ==
    Cardinality({i \in 1..Len(command) : command[i] = word})

\* the platform and optimisation arguments a cmake invocation has to carry
PlatformArguments(kind, platform) ==
    IF kind = "termux"
    THEN Range(platform_configs[platform]) \cup Range(termux_optimizations)
    ELSE Range(setup_toolchain(<<>>, platform, TRUE).cmake_args)

\* C25: every build() runs exactly its one build command, and every cmake
\* invocation of configure_build() carries each platform and optimisation
\* argument once and nothing left over from earlier calls
C25_CommandsIndependentOfHistory ==
    script.name = "builder" =>
       /\ script.call.op = "build" =>
             script.call.command = Some(make_cmd(script.kind, script.call.jobs))
       /\ (/\ script.call.op = "configure_build"
           /\ script.call.command # None
           /\ script.kind = "android" => script.toolchain) =>
             LET command == script.call.command[1]
                 expected == PlatformArguments(script.kind, script.call.platform)
             IN /\ \A a \in expected : Count(a, command) = 1
                /\ Len(command) = 2 + Cardinality(expected) + Len(script.call.custom_args)

\* C30: the auto-detected platform is a key of platform_configs, and a
\* configure_build with a name that is no platform returns False, runs no
\* cmake and leaves cmake_args as they were
C30_DetectedPlatformKnown ==
    (script.name = "builder" /\ script.kind = "termux") =>
       /\ script.platform \in DOMAIN platform_configs
       /\ (script.call.op = "configure_build"
           /\ script.call.platform \notin DOMAIN platform_configs) =>
             /\ ~script.call.ret
             /\ script.call.command = None
             /\ script.cmake_args = script.call.before
       /\ (script.call.op = "configure_build"
           /\ script.call.platform = script.platform) =>
             script.call.command # None

\* a fallback platform was detected and configured, and an unknown one refused
C30_Witness ==
    /\ script.name = "builder" /\ script.kind = "termux"
    /\ script.platform \in {"termux", "generic-arm64"}
    /\ script.cmake_args # <<>>
    /\ script.call.op = "configure_build"
    /\ script.call.platform = "arm64"

-----------------------------------------------------------------------------
(* build_box64 of both builders, one step at a time.  The source and the   *)
(* build directory outlive a run: source is "absent", "empty" (a directory *)
(* without CMakeLists.txt) or "tree"; box64 is what build_dir/box64 is:    *)
(* "absent", "file" (the binary) or "directory".                           *)

MaxRuns == 2

\* TermuxBox64Builder.build_box64: the calls in the order of the code
termux_build_box64 ==
    <<"check_termux_environment", "clean", "install_termux_dependencies",
      "clone_box64_source", "setup_build_environment", "configure_build", "build",
      "run_tests", "install", "create_launch_script">>

\* AndroidBox64Builder.build_box64: the calls in the order of the code
android_build_box64 ==
    <<"detect_android_sdk", "clean", "clone_box64_source", "setup_build_environment",
      "setup_toolchain", "configure_build", "build", "run_tests", "install",
      "create_android_package">>

BuildSteps(kind) ==
    IF kind = "termux" THEN termux_build_box64 ELSE android_build_box64

\* the if around a call of build_box64
Requested(step, opts) ==
    CASE step = "clean" -> opts.clean_build
      [] step = "clone_box64_source" -> opts.clone_source
      [] step = "run_tests" -> opts.test
      [] step = "install" -> opts.install
      [] step = "create_launch_script" -> opts.install
      [] step = "create_android_package" -> opts.create_package
      [] OTHER -> TRUE

\* build_box64 with a failed test run ending the build
FatalWithTests(step) ==
    step \notin {"clean", "create_launch_script"}

\* the calls of build_box64 under "if not ...: return False"
Fatal(step) ==
    step \notin {"clean", "run_tests", "create_launch_script"}

\* clone_box64_source of either builder: the result and the source afterwards
clone_box64_source(kind, source, run) ==
    IF (kind = "termux" /\ source # "absent") \/ (kind = "android" /\ source = "tree")
    THEN [ret |-> TRUE, source |-> source]
    ELSE IF builder_run_command(run)
    THEN [ret |-> TRUE, source |-> "tree"]
    ELSE [ret |-> FALSE, source |-> IF source = "absent" THEN "empty" ELSE source]

\* Path.mkdir(exist_ok=True) of a path below build_dir/box64, without parents
mkdir(parent) ==
    IF parent = "directory" THEN "ok"
    ELSE IF parent = "file" THEN "NotADirectoryError"
    ELSE "FileNotFoundError"

\* shutil.copy2 of build_dir/box64
copy2(src) ==
    IF src = "file" THEN "ok" ELSE "IsADirectoryError"

\* create_android_package: True, False, or the exception it raises
create_android_package(box64, run) ==
    IF mkdir(box64) # "ok" THEN mkdir(box64)
    ELSE IF box64 # "absent"
    THEN IF copy2(box64) # "ok" THEN copy2(box64)
         ELSE IF builder_run_command(run) THEN "True" ELSE "False"
    ELSE "False"

\* the result of a step: "True", "False" or an exception; clean has none
StepResult(kind, step, b, run) ==
    CASE step = "clone_box64_source" ->
            IF clone_box64_source(kind, b.source, run).ret THEN "True" ELSE "False"
      [] step = "create_android_package" -> create_android_package(b.box64, run)
      [] step \in {"clean", "setup_build_environment"} -> "True"
      [] step = "run_tests" /\ kind = "android" -> "True"
      [] OTHER -> IF builder_run_command(run) THEN "True" ELSE "False"

\* what a step leaves in the source and build directories
StepSource(kind, step, b, run) ==
    IF step = "clone_box64_source"
    THEN clone_box64_source(kind, b.source, run).source ELSE b.source

StepBox64(step, b, run) ==
    IF step = "clean" THEN "absent"
    ELSE IF step = "build" /\ builder_run_command(run) THEN "file"
    ELSE b.box64

\* the next requested call after position i, 0 when there is none
RECURSIVE NextCall(_, _, _)
NextCall(kind, opts, i) ==
    IF i >= Len(BuildSteps(kind)) THEN 0
    ELSE IF Requested(BuildSteps(kind)[i + 1], opts) THEN i + 1
    ELSE NextCall(kind, opts, i + 1)

BuildOptions ==
    [clean_build : BOOLEAN, clone_source : BOOLEAN, test : BOOLEAN,
     install : BOOLEAN, create_package : BOOLEAN]

\* main of either script calls build_box64 on a new builder
BuildStart ==
    /\ \/ script = NoScript
       \/ script.name = "build_box64" /\ script.pc = 0 /\ script.runs < MaxRuns
    /\ \E kind \in {"termux", "android"}, opts \in BuildOptions,
          source \in {"absent", "tree"}, box64 \in {"absent", "file"} :
          /\ script # NoScript => kind = script.kind
          /\ kind = "termux" => opts.create_package
          /\ script' = [name |-> "build_box64", kind |-> kind, opts |-> opts,
                        pc |-> 1, log |-> <<>>, ret |-> "running",
                        source |-> IF script = NoScript THEN source ELSE script.source,
                        box64 |-> IF script = NoScript THEN box64 ELSE script.box64,
                        runs |-> IF script = NoScript THEN 1 ELSE script.runs + 1]
    /\ UNCHANGED <<utilVars, clientVars>>

\* the call at script.pc, and where build_box64 goes from it
BuildStep ==
    /\ script.name = "build_box64"
    /\ script.pc > 0
    /\ \E run \in {"zero", "nonzero"} :
          LET step == BuildSteps(script.kind)[script.pc]
              r == StepResult(script.kind, step, script, run)
              next == NextCall(script.kind, script.opts, script.pc)
              moved == [script EXCEPT !.log = Append(@, <<step, r>>),
                           !.source = StepSource(script.kind, step, script, run),
                           !.box64 = StepBox64(step, script, run)]
          IN script' =
                IF r \notin {"True", "False"}
                THEN [moved EXCEPT !.pc = 0, !.ret = "raised"]
                ELSE IF r = "False" /\ Fatal(step)
                THEN [moved EXCEPT !.pc = 0, !.ret = "False"]
                ELSE IF next = 0
                THEN [moved EXCEPT !.pc = 0, !.ret = "True"]
                ELSE [moved EXCEPT !.pc = next]
    /\ UNCHANGED <<utilVars, clientVars>>

NextBuild ==
    \/ BuildStart
    \/ BuildStep

SpecBuild == Init /\ [][NextBuild]_vars

\* the place of a step in the order the pipelines are documented to follow
StepRank(step) ==
    CASE step \in {"check_termux_environment", "detect_android_sdk"} -> 1
      [] step = "clean" -> 2
      [] step = "install_termux_dependencies" -> 3
      [] step = "clone_box64_source" -> 4
      [] step = "setup_build_environment" -> 5
      [] step = "setup_toolchain" -> 6
      [] step = "configure_build" -> 7
      [] step = "build" -> 8
      [] step = "run_tests" -> 9
      [] step = "install" -> 10
      [] step \in {"create_launch_script", "create_android_package"} -> 11

\* C23: the steps of build_box64 run in the fixed order; a fatal step that
\* returns False is the last step and makes build_box64 return False; a
\* failed test run is followed by the install step when install is requested
C23_FixedOrderFatalSteps ==
    script.name = "build_box64" =>
       LET log == script.log
       IN /\ \A i, j \in 1..Len(log) :
                i < j => StepRank(log[i][1]) < StepRank(log[j][1])
          /\ \A i \in 1..Len(log) :
                (log[i][2] = "False" /\ log[i][1] \notin {"run_tests", "create_launch_script"})
                   => i = Len(log) /\ script.pc = 0 /\ script.ret = "False"
          /\ script.ret = "False" => log # <<>> /\ log[Len(log)][2] = "False"
          /\ \A i \in 1..Len(log) :
                (log[i] = <<"run_tests", "False">> /\ script.opts.install) =>
                   IF i = Len(log)
                   THEN script.pc > 0 /\ BuildSteps(script.kind)[script.pc] = "install"
                   ELSE log[i + 1][1] = "install"

\* a build whose tests failed, that installed all the same and returned True
C23_Witness ==
    /\ script.name = "build_box64"
    /\ script.ret = "True"
    /\ \E i \in 1..Len(script.log) : script.log[i] = <<"run_tests", "False">>
    /\ \E i \in 1..Len(script.log) : script.log[i] = <<"install", "True">>

\* C26: clone_box64_source returns True only when the source tree is there
C26_CloneTrueMeansSourcePresent ==
    script.name = "build_box64" =>
       \A i \in 1..Len(script.log) :
          script.log[i] = <<"clone_box64_source", "True">> => script.source = "tree"

\* C27: create_android_package does not raise, and it returns True or fails
\* on the archive when the build left the binary at build_dir/box64
C27_PackageCreatedFromBinary ==
    (script.name = "build_box64" /\ script.log # <<>>
     /\ script.log[Len(script.log)][1] = "create_android_package") =>
       /\ script.log[Len(script.log)][2] \in {"True", "False"}
       /\ script.box64 = "absent" => script.log[Len(script.log)][2] = "False"

-----------------------------------------------------------------------------
(* init-wine-container.py: main, one step of main per action.  A command   *)
(* runs with exit status zero, nonzero, or subprocess.run raises; a        *)
(* filesystem operation succeeds ("ok") or raises OSError ("raise").  An   *)
(* exception that nothing catches ends the interpreter with status 1.      *)

Runs == {"zero", "nonzero", "raise"}

FsOutcomes == {"ok", "raise"}

\* run_command and run_wine_command of init-wine-container.py
wine_run_command(run) ==
    run = "zero"

\* initialize_wine_container: True, False, or "raise" when mkdir raises
initialize_wine_container(mkdir_container, wineboot) ==
    IF mkdir_container = "raise"
    THEN [ret |-> "raise", ran |-> <<Step("mkdir container", "raise")>>]
    ELSE IF wineboot = "raise"
    THEN [ret |-> "False", ran |-> <<Step("wineboot", "raise")>>]
    ELSE [ret |-> "True", ran |-> <<Step("wineboot", wineboot)>>]

\* install_steam_dependencies
install_steam_dependencies(winetricks, run) ==
    IF ~winetricks THEN FALSE ELSE wine_run_command(run)

\* setup_dxvk_registry and setup_vkd3d_proton_registry
setup_registry(reg_file_exists, run) ==
    IF ~reg_file_exists THEN FALSE ELSE wine_run_command(run)

\* the result of an advisory step as main logs it
Advisory(name, ok) ==
    Step(name, IF ok THEN "done" ELSE "warning")

WineAt(pc) ==
    script.name = "init-wine-container" /\ script.pc = pc

\* args = parser.parse_args()
WineStart ==
    /\ script = NoScript
    /\ \E skip_wine_init \in BOOLEAN, skip_steam_deps \in BOOLEAN,
          skip_dxvk_registry \in BOOLEAN, skip_vkd3d \in BOOLEAN :
          script' = [name |-> "init-wine-container",
                     args |-> [skip_wine_init |-> skip_wine_init,
                               skip_steam_deps |-> skip_steam_deps,
                               skip_dxvk_registry |-> skip_dxvk_registry,
                               skip_vkd3d |-> skip_vkd3d],
                     pc |-> "checks", ran |-> <<>>, exit |-> None]
    /\ UNCHANGED <<utilVars, clientVars>>

\* lines 265-278: the DXVK path, the vkd3d-proton path, shutil.which("wine")
WineChecks ==
    /\ WineAt("checks")
    /\ \E dxvk \in BOOLEAN, vkd3d \in BOOLEAN, wine \in BOOLEAN :
          IF ~dxvk THEN Exit(1, <<Step("dxvk path", "missing")>>)
          ELSE IF ~vkd3d THEN Exit(1, <<Step("vkd3d path", "missing")>>)
          ELSE IF ~wine THEN Exit(1, <<Step("which wine", "missing")>>)
          ELSE Goto("wine_init", <<>>)
    /\ UNCHANGED <<utilVars, clientVars>>

\* lines 280-286
WineInit ==
    /\ WineAt("wine_init")
    /\ IF script.args.skip_wine_init THEN Goto("steam_deps", <<>>)
       ELSE \E mkdir_container \in FsOutcomes, wineboot \in Runs :
               LET r == initialize_wine_container(mkdir_container, wineboot) IN
               IF r.ret = "True" THEN Goto("steam_deps", r.ran) ELSE Exit(1, r.ran)
    /\ UNCHANGED <<utilVars, clientVars>>

\* lines 288-293
WineSteamDeps ==
    /\ WineAt("steam_deps")
    /\ IF script.args.skip_steam_deps THEN Goto("copy_dxvk", <<>>)
       ELSE \E winetricks \in BOOLEAN, run \in Runs :
               Goto("copy_dxvk",
                    <<Advisory("steam deps", install_steam_dependencies(winetricks, run))>>)
    /\ UNCHANGED <<utilVars, clientVars>>

\* lines 295-296: copy_dxvk_files makes the system directories and copies
\* the DLLs with shutil.copy2, catching nothing
WineCopyDxvk ==
    /\ WineAt("copy_dxvk")
    /\ \E copy \in FsOutcomes :
          IF copy = "raise" THEN Exit(1, <<Step("copy dxvk", "raise")>>)
          ELSE Goto("dxvk_registry", <<Step("copy dxvk", "ok")>>)
    /\ UNCHANGED <<utilVars, clientVars>>

\* lines 298-303
WineDxvkRegistry ==
    /\ WineAt("dxvk_registry")
    /\ IF script.args.skip_dxvk_registry THEN Goto("vkd3d", <<>>)
       ELSE \E reg \in BOOLEAN, run \in Runs :
               Goto("vkd3d", <<Advisory("dxvk registry", setup_registry(reg, run))>>)
    /\ UNCHANGED <<utilVars, clientVars>>

\* lines 305-313 and the end of main
WineVkd3d ==
    /\ WineAt("vkd3d")
    /\ IF script.args.skip_vkd3d THEN Exit(0, <<>>)
       ELSE \E copy \in FsOutcomes, reg \in BOOLEAN, run \in Runs :
               IF copy = "raise" THEN Exit(1, <<Step("copy vkd3d", "raise")>>)
               ELSE Exit(0, <<Step("copy vkd3d", "ok"),
                              Advisory("vkd3d registry", setup_registry(reg, run))>>)
    /\ UNCHANGED <<utilVars, clientVars>>

NextWine ==
    \/ WineStart
    \/ WineChecks
    \/ WineInit
    \/ WineSteamDeps
    \/ WineCopyDxvk
    \/ WineDxvkRegistry
    \/ WineVkd3d

SpecWine == Init /\ [][NextWine]_vars

\* the steps of main that ran, by name
RanSteps ==
    {script.ran[i].step : i \in 1..Len(script.ran)}

\* the only failures after which the script is to exit with status 1
FatalCauses ==
    {Step("dxvk path", "missing"), Step("vkd3d path", "missing"),
     Step("which wine", "missing"), Step("wineboot", "raise")}

\* C24: a failed advisory step never ends the run: the script exits with
\* status 1 only right after a missing DXVK path, vkd3d-proton path or wine
\* executable or a wineboot that could not be spawned, and a run that got
\* past these executes every step that is not skipped and exits with 0
C24_OnlyFatalStepsAbort ==
    (script.name = "init-wine-container" /\ script.exit # None) =>
       /\ script.exit = Some(1) =>
             /\ script.ran # <<>>
             /\ script.ran[Len(script.ran)] \in FatalCauses
       /\ script.exit = Some(0) =>
             /\ \A i \in 1..Len(script.ran) : script.ran[i] \notin FatalCauses
             /\ ~script.args.skip_wine_init => "wineboot" \in RanSteps
             /\ ~script.args.skip_steam_deps => "steam deps" \in RanSteps
             /\ "copy dxvk" \in RanSteps
             /\ ~script.args.skip_dxvk_registry => "dxvk registry" \in RanSteps
             /\ ~script.args.skip_vkd3d => {"copy vkd3d", "vkd3d registry"} \subseteq RanSteps

-----------------------------------------------------------------------------
(* install-termux.py: install_termux_on_android.  A package name is the    *)
(* sequence of its dot-separated parts, a line of 'pm list packages' is    *)
(* "package:" followed by the name, and a text is the sequence of its      *)
(* words.                                                                  *)

ComTermux == <<"com", "termux">>

ComTermuxX11 == <<"com", "termux", "x11">>

\* packages a device may have installed
DevicePackages ==
    {ComTermux, ComTermuxX11, <<"com", "termux", "api">>, <<"org", "mozilla", "firefox">>}

\* sub in text
HasSubstring(text, sub) ==
    \E i \in 1..(Len(text) - Len(sub) + 1) : SubSeq(text, i, i + Len(sub) - 1) = sub

\* run_adb_command("pm list packages | grep <pattern>") followed by
\* 'success and "<pattern>" in result.stdout': grep keeps the lines that
\* contain the pattern; adb is "raise" when subprocess.run raises
Listed(installed, pattern, adb) ==
    /\ adb = "zero"
    /\ \E p \in installed :
          \* the line passes grep, and the pattern is in the output
          /\ HasSubstring(<<"package:">> \o p, pattern)

\* 'adb install -r <apk>' with check=False: install is the word adb prints
\* ("Success", "Failure") or "raise"
ApkInstalled(install) ==
    ~(install = "raise" \/ install # "Success")

\* one half of install_termux_on_android: the package, the existence of its
\* APK file and the outcome of adb install.  ok is False where the function
\* returns False.
install_package(installed, package, adb, apk_exists, install) ==
    IF Listed(installed, package, adb)
    THEN [ok |-> TRUE, reported |-> {package}, attempted |-> {}, installed |-> installed]
    ELSE IF ~apk_exists
    THEN [ok |-> FALSE, reported |-> {}, attempted |-> {}, installed |-> installed]
    ELSE [ok |-> ApkInstalled(install), reported |-> {}, attempted |-> {package},
          installed |-> IF install = "Success" THEN installed \cup {package}
                        ELSE installed]

\* install_termux_on_android of install-termux.py
apk_install_termux_on_android(installed, adb, apks, install) ==
    LET t == install_package(installed, ComTermux, adb[1], apks[1], install[1])
        x == install_package(t.installed, ComTermuxX11, adb[2], apks[2], install[2])
    IN IF ~t.ok
       THEN [ret |-> FALSE, reported |-> t.reported, attempted |-> t.attempted,
             installed |-> t.installed]
       ELSE [ret |-> x.ok, reported |-> t.reported \cup x.reported,
             attempted |-> t.attempted \cup x.attempted, installed |-> x.installed]

\* main of install-termux.py on a device with some packages installed
InstallTermuxMain ==
    /\ script = NoScript
    /\ \E installed \in SUBSET DevicePackages,
          adb \in {"zero", "raise"} \X {"zero", "raise"},
          apks \in BOOLEAN \X BOOLEAN,
          install \in {"Success", "Failure", "raise"} \X {"Success", "Failure", "raise"} :
          LET r == apk_install_termux_on_android(installed, adb, apks, install)
          IN script' = [name |-> "install-termux", before |-> installed, adb |-> adb,
                        apks |-> apks, install |-> install, ret |-> r.ret,
                        reported |-> r.reported, attempted |-> r.attempted,
                        installed |-> r.installed,
                        exit |-> IF r.ret THEN 0 ELSE 1]
    /\ UNCHANGED <<utilVars, clientVars>>

SpecInstallTermux == Init /\ [][InstallTermuxMain]_vars

\* C28: a package is reported as already installed only if that very package
\* is installed; the APK of a package that is not installed is attempted
\* unless the function has returned False before; True is returned only if
\* both packages are installed afterwards
C28_ExactPackageChecked ==
    script.name = "install-termux" =>
       /\ script.reported \subseteq script.before
       /\ (ComTermux \notin script.before /\ script.apks[1]) =>
             ComTermux \in script.attempted
       /\ (ComTermuxX11 \notin script.before /\ script.apks[2] /\ script.ret) =>
             ComTermuxX11 \in script.attempted
       /\ script.ret => {ComTermux, ComTermuxX11} \subseteq script.installed

-----------------------------------------------------------------------------
(* run_scrcpy: the child started by Popen with stdout and stderr piped,    *)
(* and the streaming loop of the parent.  The child writes the lines of    *)
(* its plan in order, each to stdout ("out") or stderr ("err"); a write    *)
(* to a full pipe blocks.  out and err count the lines held by the pipes.  *)

PipeCapacity == 2

MaxOutput == 3

\* Popen(cmd, env=env, stdout=PIPE, stderr=PIPE, text=True)
ScrcpyPopen ==
    /\ script = NoScript
    /\ \E plan \in SeqsUpTo({"out", "err"}, MaxOutput), status \in {"zero", "nonzero"} :
          script' = [name |-> "run_scrcpy", plan |-> plan, status |-> status,
                     child |-> "running", out |-> 0, err |-> 0, printed |-> 0,
                     pc |-> "readline", ret |-> None]
    /\ UNCHANGED <<utilVars, clientVars>>

Running ==
    script.name = "run_scrcpy" /\ script.child = "running"

\* the child writes its next line when the pipe it goes to has room
ChildWrite ==
    /\ Running
    /\ script.plan # <<>>
    /\ IF Head(script.plan) = "out"
       THEN /\ script.out < PipeCapacity
            /\ script' = [script EXCEPT !.plan = Tail(@), !.out = @ + 1]
       ELSE /\ script.err < PipeCapacity
            /\ script' = [script EXCEPT !.plan = Tail(@), !.err = @ + 1]
    /\ UNCHANGED <<utilVars, clientVars>>

\* the child has written everything: it exits, which closes its pipe ends
ChildExit ==
    /\ Running
    /\ script.plan = <<>>
    /\ script' = [script EXCEPT !.child = "exited"]
    /\ UNCHANGED <<utilVars, clientVars>>

ParentAt(pc) ==
    script.name = "run_scrcpy" /\ script.pc = pc

\* output = process.stdout.readline() returning a line, which is printed.
\* With an empty pipe and a running child the call blocks.
ReadLine ==
    /\ ParentAt("readline")
    /\ script.out > 0
    /\ script' = [script EXCEPT !.out = @ - 1, !.printed = @ + 1]
    /\ UNCHANGED <<utilVars, clientVars>>

\* readline returns '' at end of file and process.poll() is not None: break
ReadEof ==
    /\ ParentAt("readline")
    /\ script.out = 0
    /\ script.child = "exited"
    /\ script' = [script EXCEPT !.pc = "wait"]
    /\ UNCHANGED <<utilVars, clientVars>>

\* return_code = process.wait(); stderr is read only now, and only when the
\* status is not 0
WaitAndReturn ==
    /\ ParentAt("wait")
    /\ script.child = "exited"
    /\ script' = IF script.status # "zero"
                 THEN [script EXCEPT !.pc = "returned", !.err = 0, !.ret = Some(FALSE)]
                 ELSE [script EXCEPT !.pc = "returned", !.ret = Some(TRUE)]
    /\ UNCHANGED <<utilVars, clientVars>>

ChildStep ==
    \/ ChildWrite
    \/ ChildExit

ParentStep ==
    \/ ReadLine
    \/ ReadEof
    \/ WaitAndReturn

NextRunScrcpy ==
    \/ ScrcpyPopen
    \/ ChildStep
    \/ ParentStep

\* the operating system schedules both processes whenever they can run
SpecRunScrcpy ==
    Init /\ [][NextRunScrcpy]_vars /\ WF_vars(ChildStep) /\ WF_vars(ParentStep)

\* C29: once scrcpy is started, run_scrcpy returns, with True exactly for
\* exit status 0
C29_RunScrcpyReturns ==
    (script.name = "run_scrcpy")
       ~> (ParentAt("returned") /\ script.ret = Some(script.status = "zero"))

====
